---- MODULE Spec2Model ----
(***************************************************************************)
(* Flurry++ (flux reconstruction solver): the Runge-Kutta driver           *)
(* solver::update, the residual pipeline solver::calcResidual, the         *)
(* element geometry kernel ele::calcTransforms and the positivity          *)
(* ("squeezing") kernels of ele.                                          *)
(*                                                                         *)
(* The C++ type double is modelled by exact rational numbers <<n, d>>      *)
(* (d > 0, lowest terms): every statement below is a statement of real     *)
(* arithmetic, rounding is not modelled.                                   *)
(***************************************************************************)
EXTENDS Integers, Sequences, FiniteSets, TLC

(***************************************************************************)
(* Bounds of the model.                                                    *)
(***************************************************************************)
NEles == 2          \* elements of the solver (eles.size())
NMpiFaces == 1      \* MPI faces of the partition (mpiFaces.size())
MaxUpdates == 1     \* calls of solver::update that are explored

Eles == 1..NEles
MpiFaces == 1..NMpiFaces

(***************************************************************************)
(* Exact rational arithmetic standing for double.                          *)
(***************************************************************************)
Abs(x) == IF x < 0 THEN -x ELSE x

RECURSIVE GCD(_, _)
GCD(a, b) == IF b = 0 THEN a ELSE GCD(b, a % b)

\* a division by zero gives Undef (the inf or NaN of a double), which every
\* operation propagates and every comparison rejects
Undef == <<0, 0>>

Q(n, d) ==
  IF d = 0 THEN Undef
  ELSE LET g == GCD(Abs(n), Abs(d))
           s == IF d < 0 THEN -1 ELSE 1
       IN  <<s * (n \div g), s * (d \div g)>>

QInt(n) == <<n, 1>>
\* sums and products cancel common factors first, to keep the integers small
QAdd(a, b) ==
  IF a[2] = 0 \/ b[2] = 0 THEN Undef
  ELSE LET g == GCD(a[2], b[2])
       IN  Q(a[1] * (b[2] \div g) + b[1] * (a[2] \div g), (a[2] \div g) * b[2])
QNeg(a) == <<-a[1], a[2]>>
QSub(a, b) == QAdd(a, QNeg(b))
QMul(a, b) ==
  IF a[2] = 0 \/ b[2] = 0 THEN Undef
  ELSE LET g == GCD(Abs(a[1]), b[2])
           h == GCD(Abs(b[1]), a[2])
       IN  Q((a[1] \div g) * (b[1] \div h), (a[2] \div h) * (b[2] \div g))
QDiv(a, b) ==
  IF b[1] = 0 THEN Undef
  ELSE QMul(a, IF b[1] < 0 THEN <<-b[2], -b[1]>> ELSE <<b[2], b[1]>>)
QLt(a, b) == a[2] # 0 /\ b[2] # 0 /\ QSub(a, b)[1] < 0
QLe(a, b) == a[2] # 0 /\ b[2] # 0 /\ QSub(a, b)[1] <= 0
QAbs(a) == <<Abs(a[1]), a[2]>>
\* std::min(a, b)
QMin(a, b) == IF QLt(b, a) THEN b ELSE a
QZero == <<0, 1>>
QOne == <<1, 1>>

RECURSIVE QPow(_, _)
QPow(a, k) == IF k = 0 THEN QOne ELSE QMul(a, QPow(a, k - 1))

RECURSIVE QMinOver(_, _)
\* the minimum of f[i] over the non-empty finite set S
QMinOver(f, S) ==
  LET i == CHOOSE j \in S : TRUE
  IN  IF S = {i} THEN f[i] ELSE QMin(f[i], QMinOver(f, S \ {i}))

VARIABLES
  \* ---- solver::update / solver::calcResidual ----
  params,        \* input: the options read by the solver, plus time, dt, iter
  withMPI,       \* TRUE when built without _NO_MPI
  PMG_Source,    \* argument of the running solver::update
  upc,           \* position in solver::update (0: not running)
  rpc,           \* position in solver::calcResidual (0: not running)
  fpc,           \* next MPI face of the running loop over mpiFaces
  updLog,        \* calls made by the running update, in order
  resLog,        \* calls made by the running calcResidual, in order
  stageId,       \* number of calcResidual calls begun so far
  time0,         \* params->time when the running update began
  U_spts,        \* ele::U_spts, per element (one solution point, one field)
  U0,            \* ele::U0
  divF_spts,     \* ele::divF_spts[step]
  dt_ele,        \* ele::dt
  iblankCell,    \* geo::iblankCell
  cflDt,         \* per element: the CFL-limited step its wave speeds give
  faceFn,        \* per face kind: the stage whose common flux Fn it last produced
  mpiFace        \* per MPI face: the receive requests and the traces held

solverVars == <<params, withMPI, PMG_Source, upc, rpc, fpc, updLog, resLog,
                stageId, time0, U_spts, U0, divF_spts, dt_ele, iblankCell, cflDt,
                faceFn, mpiFace>>

VARIABLES
  \* ---- one element under the positivity kernels of ele ----
  el,            \* the element: U_spts, U_fpts, U_mpts, Uavg
  el0,           \* the element when the running kernel was entered
  sqpc,          \* position in the running kernel
  sqRet          \* value returned by ele::checkDensity

squeezeVars == <<el, el0, sqpc, sqRet>>

VARIABLES
  \* ---- a parallel-for loop of the solver over its elements ----
  parLoop,       \* the solver function whose loop is running
  parEles,       \* the elements of the loop
  squeezed,      \* the variable `squeezed` shared by the iterations
  iter,          \* per iteration: its position, its `check`, its `check || squeezed`
  touched        \* per iteration: the locations it has read ("r") or written ("w")

parVars == <<parLoop, parEles, squeezed, iter, touched>>

VARIABLES
  \* ---- the geometry of one element (ele::setup .. ele::calcTransforms) ----
  gel,           \* the element: nodes, order and the arrays calcTransforms fills
  gpc            \* position in ele::setupAllGeometry / ele::move

geomVars == <<gel, gpc>>

VARIABLES
  \* ---- one call of a kernel of ele or superMesh ----
  kin,           \* the fields and arguments the kernel is called with
  kpc,           \* position in the kernel
  kloc           \* the kernel's locals and outputs

kernelVars == <<kin, kpc, kloc>>

vars == <<solverVars, squeezeVars, parVars, geomVars, kernelVars>>

\* the parts of the state a specification does not use stay as they are
NoElement == [none |-> TRUE]
SqueezeIdle == el = NoElement /\ el0 = NoElement /\ sqpc = "idle" /\ sqRet = FALSE
ParIdle ==
  parLoop = "none" /\ parEles = <<>> /\ squeezed = FALSE /\ iter = <<>> /\ touched = <<>>
GeomIdle == gel = NoElement /\ gpc = "idle"
KernelIdle == kin = NoElement /\ kpc = "idle" /\ kloc = NoElement


(***************************************************************************)
(* Inputs of the time-stepping model.                                      *)
(***************************************************************************)
NORMAL == "NORMAL"
HOLE == "HOLE"
FRINGE == "FRINGE"
OVERSET_MESH == "OVERSET_MESH"
READ_MESH == "READ_MESH"

\* time steps offered to params->dt and to the elements' CFL limits
DtChoices == {Q(1, 2), QOne}

\* Runge-Kutta coefficients of the two time integrators (timeType 0 and 4)
RKa(S) == IF S = 4 THEN <<QZero, Q(1, 2), Q(1, 2), QOne>> ELSE <<QZero>>
RKb(S) == IF S = 4 THEN <<Q(1, 6), Q(1, 3), Q(1, 3), Q(1, 6)>> ELSE <<QOne>>

\* ele::detJac_spts of the (static) elements: detJ is 2 or 1
detJac_spts == [e \in Eles |-> QInt(1 + (e % 2))]

\* ele::src_spts, the multigrid source term
src_spts == [e \in Eles |-> QInt(1)]

\* coefficient of the linear scalar residual divF = lambda * U
Lambda == QInt(2)

\* the flux divergence of the linear scalar test problem at the current state
LinearResidual(e) == QMul(Lambda, U_spts[e])

(***************************************************************************)
(* solver::update as the sequence of calls it makes; a call is             *)
(* <<name, step>>.                                                         *)
(***************************************************************************)
RECURSIVE StageLoop(_, _)
StageLoop(step, S) ==
  IF step >= S - 1 THEN <<>>
  ELSE << <<"rkTime", step>>, <<"moveMesh", step>> >>
       \o (IF step = 0 THEN << <<"copyUspts_U0", step>> >> ELSE <<>>)
       \o << <<"calcResidual", step>>, <<"timeStepA", step>> >>
       \o StageLoop(step + 1, S)

RECURSIVE FinalLoop(_, _)
FinalLoop(step, S) ==
  IF step >= S THEN <<>>
  ELSE << <<"timeStepB", step>> >> \o FinalLoop(step + 1, S)

update_AlwaysRestore(p) ==
  LET S == p.nRKSteps IN
  (IF p.dtType # 0 THEN << <<"calcDt", 0>> >> ELSE <<>>)
  \o StageLoop(0, S)
  \o << <<"rkTime", S - 1>>, <<"moveMesh", S - 1>>, <<"calcResidual", S - 1>> >>
  \o << <<"copyU0_Uspts", S - 1>> >>
  \o FinalLoop(0, S)
  \o << <<"advanceTime", S - 1>> >>

update(p) ==
  LET S == p.nRKSteps IN
  (IF p.dtType # 0 THEN << <<"calcDt", 0>> >> ELSE <<>>)
  \o StageLoop(0, S)
  \o << <<"rkTime", S - 1>>, <<"moveMesh", S - 1>>, <<"calcResidual", S - 1>> >>
  \o (IF S > 1 THEN << <<"copyU0_Uspts", S - 1>> >> ELSE <<>>)
  \o FinalLoop(0, S)
  \o << <<"advanceTime", S - 1>> >>

(***************************************************************************)
(* solver::calcResidual as the sequence of calls it makes.                 *)
(***************************************************************************)
Opt(cond, calls) == IF cond THEN calls ELSE <<>>

calcResidual_FluxBeforeExchange(p, mpi) ==
  LET overset == p.meshType = OVERSET_MESH IN
  Opt(overset /\ p.oversetMethod = 2, <<"oversetFieldInterp">>)
  \o Opt(p.scFlag = 1, <<"shockCapture">>)
  \o <<"extrapolateU">>
  \o Opt(p.squeeze, <<"calcAvgSolution", "checkEntropy">>)
  \o Opt(p.viscous \/ p.motion, <<"calcGradU_spts">>)
  \o <<"calcInviscidFlux_spts", "calcInviscidFlux_faces">>
  \o Opt(mpi, <<"calcInviscidFlux_mpi">>)
  \o Opt(mpi, <<"doCommunication">>)
  \o Opt(overset, <<"oversetInterp", "calcInviscidFlux_overset">>)
  \o Opt(p.viscous,
         <<"correctGradU", "extrapolateGradU">>
         \o Opt(mpi, <<"doCommunicationGrad">>)
         \o <<"calcViscousFlux_spts", "calcViscousFlux_faces">>
         \o Opt(mpi, <<"calcViscousFlux_mpi">>)
         \o Opt(overset, <<"oversetInterp_gradient", "calcViscousFlux_overset">>))
  \o <<"extrapolateNormalFlux", "calcFluxDivergence", "correctDivFlux">>

calcResidual_CorrectionBeforeOverset(p, mpi) ==
  LET overset == p.meshType = OVERSET_MESH IN
  Opt(overset /\ p.oversetMethod = 2, <<"oversetFieldInterp">>)
  \o Opt(p.scFlag = 1, <<"shockCapture">>)
  \o <<"extrapolateU">>
  \o Opt(p.squeeze, <<"calcAvgSolution", "checkEntropy">>)
  \o Opt(p.viscous \/ p.motion, <<"calcGradU_spts">>)
  \o Opt(mpi, <<"doCommunication">>)
  \o <<"calcInviscidFlux_spts", "calcInviscidFlux_faces">>
  \o Opt(mpi, <<"calcInviscidFlux_mpi">>)
  \o Opt(p.viscous,
         <<"correctGradU", "extrapolateGradU">>
         \o Opt(mpi, <<"doCommunicationGrad">>)
         \o <<"calcViscousFlux_spts", "calcViscousFlux_faces">>
         \o Opt(mpi, <<"calcViscousFlux_mpi">>)
         \o Opt(overset, <<"oversetInterp_gradient", "calcViscousFlux_overset">>))
  \o <<"extrapolateNormalFlux", "calcFluxDivergence", "correctDivFlux">>
  \o Opt(overset, <<"oversetInterp", "calcInviscidFlux_overset">>)

calcResidual(p, mpi) ==
  LET overset == p.meshType = OVERSET_MESH IN
  Opt(overset /\ p.oversetMethod = 2, <<"oversetFieldInterp">>)
  \o Opt(p.scFlag = 1, <<"shockCapture">>)
  \o <<"extrapolateU">>
  \o Opt(p.squeeze, <<"calcAvgSolution", "checkEntropy">>)
  \o Opt(p.viscous \/ p.motion, <<"calcGradU_spts">>)
  \o Opt(mpi, <<"doCommunication">>)
  \o <<"calcInviscidFlux_spts", "calcInviscidFlux_faces">>
  \o Opt(mpi, <<"calcInviscidFlux_mpi">>)
  \o Opt(overset, <<"oversetInterp", "calcInviscidFlux_overset">>)
  \o Opt(p.viscous,
         <<"correctGradU", "extrapolateGradU">>
         \o Opt(mpi, <<"doCommunicationGrad">>)
         \o <<"calcViscousFlux_spts", "calcViscousFlux_faces">>
         \o Opt(mpi, <<"calcViscousFlux_mpi">>)
         \o Opt(overset, <<"oversetInterp_gradient", "calcViscousFlux_overset">>))
  \o <<"extrapolateNormalFlux", "calcFluxDivergence", "correctDivFlux">>


(***************************************************************************)
(* Initial states: the solver after setup and the initial condition.       *)
(* Two families of inputs are explored: every combination of the options   *)
(* that shape the residual pipeline, and every combination of the options  *)
(* that shape the time step.                                               *)
(***************************************************************************)
ParamsOK(p) ==
  /\ (p.meshType = OVERSET_MESH) \/ (p.oversetMethod = 0)
  /\ (p.dtType = 0) \/ (p.dt = Q(1, 2))

PipelineInputs ==
  {p \in [nRKSteps : {1, 4}, dtType : {0}, viscous : BOOLEAN, motion : BOOLEAN,
          squeeze : BOOLEAN, scFlag : {0, 1},
          meshType : {READ_MESH, OVERSET_MESH}, oversetMethod : {0, 2},
          dt : {Q(1, 2)}, time : {QZero}, rkTime : {QZero}, iter : {0}] :
     ParamsOK(p)}

SteppingInputs ==
  {p \in [nRKSteps : {1, 4}, dtType : {0, 1, 2}, viscous : {FALSE}, motion : {FALSE},
          squeeze : {FALSE}, scFlag : {0},
          meshType : {READ_MESH, OVERSET_MESH}, oversetMethod : {0, 2},
          dt : DtChoices, time : {QZero}, rkTime : {QZero}, iter : {0}] :
     ParamsOK(p)}

IdleFace == [req |-> "null", posted |-> 0, UR |-> 0,
             reqGrad |-> "null", postedGrad |-> 0, dUR |-> 0,
             inviscidAt |-> 0, inviscidFrom |-> 0,
             viscousAt |-> 0, viscousFrom |-> 0]

InitCommon ==
  /\ withMPI \in BOOLEAN
  /\ PMG_Source = FALSE
  /\ upc = 0 /\ rpc = 0 /\ fpc = 1
  /\ updLog = <<>> /\ resLog = <<>>
  /\ stageId = 0
  /\ time0 = QZero
  /\ U_spts = [e \in Eles |-> QInt(e)]
  /\ U0 = [e \in Eles |-> QZero]
  /\ divF_spts = [e \in Eles |-> [s \in 1..params.nRKSteps |-> QZero]]
  /\ dt_ele = [e \in Eles |-> QZero]
  /\ faceFn = [interior |-> 0, overset |-> 0]
  /\ mpiFace = [f \in MpiFaces |-> IdleFace]
  /\ SqueezeIdle /\ ParIdle /\ GeomIdle /\ KernelIdle

InitPipeline ==
  /\ params \in PipelineInputs
  /\ cflDt = [e \in Eles |-> Q(1, 2)]
  /\ iblankCell = [e \in Eles |-> NORMAL]
  /\ InitCommon

InitStepping ==
  /\ params \in SteppingInputs
  /\ cflDt \in (IF params.dtType = 0 THEN {[e \in Eles |-> Q(1, 2)]}
                ELSE [Eles -> DtChoices])
  /\ iblankCell \in (IF params.meshType = OVERSET_MESH /\ params.oversetMethod = 2
                     THEN [Eles -> {NORMAL, HOLE, FRINGE}]
                     ELSE {[e \in Eles |-> NORMAL]})
  /\ InitCommon

Init == InitPipeline \/ InitStepping


(***************************************************************************)
(* solver::update, call by call.                                           *)
(***************************************************************************)
CurCall == update(params)[upc]
CurStep == CurCall[2]
Returned(pos) == IF pos = Len(update(params)) THEN 0 ELSE pos + 1

\* update() makes its next call, `name`
UpdCall(name) ==
  /\ upc > 0 /\ rpc = 0
  /\ CurCall[1] = name
  /\ updLog' = Append(updLog, CurCall)
  /\ upc' = Returned(upc)
  /\ UNCHANGED <<withMPI, PMG_Source, rpc, fpc, resLog, stageId, time0,
                 iblankCell, cflDt, faceFn, mpiFace, squeezeVars, parVars, geomVars, kernelVars>>

\* a caller (the time loop or a multigrid level) calls update(PMG_Source)
update_begin ==
  /\ upc = 0
  /\ params.iter < MaxUpdates
  /\ PMG_Source' \in BOOLEAN
  /\ params' = [params EXCEPT !.iter = @ + 1]
  /\ upc' = 1
  /\ updLog' = <<>>
  /\ time0' = params.time
  /\ UNCHANGED <<withMPI, rpc, fpc, resLog, stageId, U_spts, U0, divF_spts,
                 dt_ele, iblankCell, cflDt, faceFn, mpiFace, squeezeVars, parVars,
                 geomVars, kernelVars>>

\* ele::calcDt: the element's CFL-limited step, stored in ele::dt
ele_calcDt(e) == cflDt[e]

calcDt ==
  /\ UpdCall("calcDt")
  /\ dt_ele' = [e \in Eles |-> ele_calcDt(e)]
  /\ params' = [params EXCEPT !.dt = QMinOver([e \in Eles |-> ele_calcDt(e)], Eles)]
  /\ UNCHANGED <<U_spts, U0, divF_spts>>

rkTime ==
  /\ UpdCall("rkTime")
  /\ params' = [params EXCEPT
        !.rkTime = QAdd(params.time, QMul(RKa(params.nRKSteps)[CurStep + 1], params.dt))]
  /\ UNCHANGED <<U_spts, U0, divF_spts, dt_ele>>

\* the solution is not touched by the mesh motion
moveMesh ==
  /\ UpdCall("moveMesh")
  /\ UNCHANGED <<params, U_spts, U0, divF_spts, dt_ele>>

copyUspts_U0 ==
  /\ UpdCall("copyUspts_U0")
  /\ U0' = U_spts
  /\ UNCHANGED <<params, U_spts, divF_spts, dt_ele>>

copyU0_Uspts ==
  /\ UpdCall("copyU0_Uspts")
  /\ U_spts' = U0
  /\ UNCHANGED <<params, U0, divF_spts, dt_ele>>

Advanced_AllElements ==
  Eles

\* the elements a time-step loop of the solver visits
Advanced ==
  IF params.meshType = OVERSET_MESH /\ params.oversetMethod = 2
  THEN {e \in Eles : iblankCell[e] = NORMAL}
  ELSE Eles

\* the step an element would use if it kept the dt its own calcDt stored
ele_dt_KeepsOwn(e) == dt_ele[e]

\* the step an element uses: ele::dt after "if (params->dtType != 2) dt = params->dt"
ele_dt(e) == IF params.dtType # 2 THEN params.dt ELSE dt_ele[e]

\* ele::timeStepA and ele::timeStepA_source
ele_timeStepA_UsesCurrentU(e, step, rkVal, src) ==
  QSub(U_spts[e],
       QDiv(QMul(QMul(rkVal, ele_dt(e)), QAdd(divF_spts[e][step + 1], src)),
            detJac_spts[e]))

ele_timeStepA(e, step, rkVal, src) ==
  QSub(U0[e],
       QDiv(QMul(QMul(rkVal, ele_dt(e)), QAdd(divF_spts[e][step + 1], src)),
            detJac_spts[e]))

\* ele::timeStepB and ele::timeStepB_source
ele_timeStepB(e, step, rkVal, src) ==
  QSub(U_spts[e],
       QDiv(QMul(QMul(rkVal, ele_dt(e)), QAdd(divF_spts[e][step + 1], src)),
            detJac_spts[e]))

SourceOf(e) == IF PMG_Source THEN src_spts[e] ELSE QZero

timeStepA ==
  /\ UpdCall("timeStepA")
  /\ U_spts' = [e \in Eles |->
        IF e \in Advanced
        THEN ele_timeStepA(e, CurStep, RKa(params.nRKSteps)[CurStep + 2], SourceOf(e))
        ELSE U_spts[e]]
  /\ dt_ele' = [e \in Eles |-> IF e \in Advanced THEN ele_dt(e) ELSE dt_ele[e]]
  /\ UNCHANGED <<params, U0, divF_spts>>

timeStepB ==
  /\ UpdCall("timeStepB")
  /\ U_spts' = [e \in Eles |->
        IF e \in Advanced
        THEN ele_timeStepB(e, CurStep, RKb(params.nRKSteps)[CurStep + 1], SourceOf(e))
        ELSE U_spts[e]]
  /\ dt_ele' = [e \in Eles |-> IF e \in Advanced THEN ele_dt(e) ELSE dt_ele[e]]
  /\ UNCHANGED <<params, U0, divF_spts>>

\* params->time += params->dt, and update() returns
advanceTime ==
  /\ UpdCall("advanceTime")
  /\ params' = [params EXCEPT !.time = QAdd(params.time, params.dt)]
  /\ UNCHANGED <<U_spts, U0, divF_spts, dt_ele>>

(***************************************************************************)
(* solver::calcResidual, call by call.                                     *)
(***************************************************************************)
ResBody == calcResidual(params, withMPI)

calcResidual_call ==
  /\ upc > 0 /\ rpc = 0
  /\ CurCall[1] = "calcResidual"
  /\ updLog' = Append(updLog, CurCall)
  /\ rpc' = 1
  /\ resLog' = <<>>
  /\ stageId' = stageId + 1
  /\ UNCHANGED <<params, withMPI, PMG_Source, upc, fpc, time0, U_spts, U0,
                 divF_spts, dt_ele, iblankCell, cflDt, faceFn, mpiFace, squeezeVars,
                 parVars, geomVars, kernelVars>>

\* calcResidual() makes its next call, `name`; after the last it returns to update()
ResCall(name) ==
  /\ rpc > 0
  /\ ResBody[rpc] = name
  /\ resLog' = Append(resLog, name)
  /\ IF rpc = Len(ResBody)
     THEN rpc' = 0 /\ upc' = Returned(upc)
     ELSE rpc' = rpc + 1 /\ upc' = upc
  /\ UNCHANGED <<params, withMPI, PMG_Source, updLog, stageId, time0, U_spts, U0,
                 dt_ele, iblankCell, cflDt, squeezeVars, parVars, geomVars, kernelVars>>

\* a call of the pipeline that touches nothing the model keeps
ResPlain(name) ==
  /\ ResCall(name)
  /\ UNCHANGED <<fpc, divF_spts, faceFn, mpiFace>>

oversetFieldInterp == ResPlain("oversetFieldInterp")
shockCapture == ResPlain("shockCapture")
extrapolateU == ResPlain("extrapolateU")
calcAvgSolution == ResPlain("calcAvgSolution")
checkEntropy == ResPlain("checkEntropy")
calcGradU_spts == ResPlain("calcGradU_spts")
calcInviscidFlux_spts == ResPlain("calcInviscidFlux_spts")
oversetInterp == ResPlain("oversetInterp")
correctGradU == ResPlain("correctGradU")
extrapolateGradU == ResPlain("extrapolateGradU")
calcViscousFlux_spts == ResPlain("calcViscousFlux_spts")
oversetInterp_gradient == ResPlain("oversetInterp_gradient")
extrapolateNormalFlux == ResPlain("extrapolateNormalFlux")

\* interior and boundary faces: the common flux of this stage
calcInviscidFlux_faces ==
  /\ ResCall("calcInviscidFlux_faces")
  /\ faceFn' = [faceFn EXCEPT !.interior = stageId]
  /\ UNCHANGED <<fpc, divF_spts, mpiFace>>

calcViscousFlux_faces ==
  /\ ResCall("calcViscousFlux_faces")
  /\ faceFn' = [faceFn EXCEPT !.interior = stageId]
  /\ UNCHANGED <<fpc, divF_spts, mpiFace>>

\* overset faces: "if (params->oversetMethod == 2) return;"
calcInviscidFlux_overset ==
  /\ ResCall("calcInviscidFlux_overset")
  /\ faceFn' = IF params.oversetMethod = 2 THEN faceFn
               ELSE [faceFn EXCEPT !.overset = stageId]
  /\ UNCHANGED <<fpc, divF_spts, mpiFace>>

calcViscousFlux_overset ==
  /\ ResCall("calcViscousFlux_overset")
  /\ faceFn' = IF params.oversetMethod = 2 THEN faceFn
               ELSE [faceFn EXCEPT !.overset = stageId]
  /\ UNCHANGED <<fpc, divF_spts, mpiFace>>

\* calcDivF_spts(step), or calcGradF_spts and transformGradF_spts(step): the
\* divergence of the flux of the current solution overwrites divF_spts[step]
calcFluxDivergence ==
  /\ ResCall("calcFluxDivergence")
  /\ divF_spts' = [e \in Eles |->
        [divF_spts[e] EXCEPT ![CurStep + 1] = LinearResidual(e)]]
  /\ UNCHANGED <<fpc, faceFn, mpiFace>>

\* ele::calcDeltaFn and applyCorrectDivF: the correction by dFn = Fn - disFn is
\* added to divF_spts[step]; the linear test problem has Fn = disFn
FluxCorrection(e) == QZero

correctDivFlux ==
  /\ ResCall("correctDivFlux")
  /\ divF_spts' = [e \in Eles |->
        [divF_spts[e] EXCEPT ![CurStep + 1] = QAdd(@, FluxCorrection(e))]]
  /\ UNCHANGED <<fpc, faceFn, mpiFace>>

(***************************************************************************)
(* MPI faces.  communicate() posts the non-blocking receive of the right   *)
(* trace and the send of the left one; the transport completes a posted    *)
(* receive at any later moment; the face kernels wait for their receive.   *)
(***************************************************************************)
mpiFace_communicate(f) ==
  [mpiFace[f] EXCEPT !.req = "pending", !.posted = stageId]

mpiFace_communicateGrad(f) ==
  [mpiFace[f] EXCEPT !.reqGrad = "pending", !.postedGrad = stageId]

doCommunication ==
  /\ ResCall("doCommunication")
  /\ mpiFace' = [f \in MpiFaces |-> mpiFace_communicate(f)]
  /\ UNCHANGED <<fpc, divF_spts, faceFn>>

doCommunicationGrad ==
  /\ ResCall("doCommunicationGrad")
  /\ mpiFace' = [f \in MpiFaces |-> mpiFace_communicateGrad(f)]
  /\ UNCHANGED <<fpc, divF_spts, faceFn>>

\* the message matched by a receive is the trace the neighbour sent in the
\* stage the receive was posted in
Deliver(f) ==
  /\ mpiFace[f].req = "pending"
  /\ mpiFace' = [mpiFace EXCEPT ![f] =
        [mpiFace[f] EXCEPT !.req = "complete", !.UR = mpiFace[f].posted]]
  /\ UNCHANGED <<params, withMPI, PMG_Source, upc, rpc, fpc, updLog, resLog,
                 stageId, time0, U_spts, U0, divF_spts, dt_ele, iblankCell,
                 cflDt, faceFn, squeezeVars, parVars, geomVars, kernelVars>>

DeliverGrad(f) ==
  /\ mpiFace[f].reqGrad = "pending"
  /\ mpiFace' = [mpiFace EXCEPT ![f] =
        [mpiFace[f] EXCEPT !.reqGrad = "complete", !.dUR = mpiFace[f].postedGrad]]
  /\ UNCHANGED <<params, withMPI, PMG_Source, upc, rpc, fpc, updLog, resLog,
                 stageId, time0, U_spts, U0, divF_spts, dt_ele, iblankCell,
                 cflDt, faceFn, squeezeVars, parVars, geomVars, kernelVars>>

\* one iteration of a loop over mpiFaces: the pipeline is at call `name`
MpiLoopIteration(name) ==
  /\ rpc > 0
  /\ ResBody[rpc] = name
  /\ fpc <= NMpiFaces
  /\ fpc' = fpc + 1
  /\ UNCHANGED <<params, withMPI, PMG_Source, upc, rpc, updLog, resLog, stageId,
                 time0, U_spts, U0, divF_spts, dt_ele, iblankCell, cflDt, faceFn,
                 squeezeVars, parVars, geomVars, kernelVars>>

\* mpiFace::calcInviscidFlux: waits for the right trace, then evaluates the flux
mpiFace_calcInviscidFlux ==
  /\ MpiLoopIteration("calcInviscidFlux_mpi")
  /\ mpiFace[fpc].req # "pending"
  /\ mpiFace' = [mpiFace EXCEPT ![fpc] =
        [mpiFace[fpc] EXCEPT !.req = "null", !.inviscidAt = stageId,
                             !.inviscidFrom = mpiFace[fpc].UR]]

\* mpiFace::calcViscousFlux: waits for the gradient trace, then evaluates
mpiFace_calcViscousFlux ==
  /\ MpiLoopIteration("calcViscousFlux_mpi")
  /\ mpiFace[fpc].reqGrad # "pending"
  /\ mpiFace' = [mpiFace EXCEPT ![fpc] =
        [mpiFace[fpc] EXCEPT !.reqGrad = "null", !.viscousAt = stageId,
                             !.viscousFrom = mpiFace[fpc].dUR]]

\* the loop over mpiFaces is over
calcInviscidFlux_mpi ==
  /\ fpc > NMpiFaces
  /\ ResCall("calcInviscidFlux_mpi")
  /\ fpc' = 1
  /\ UNCHANGED <<divF_spts, faceFn, mpiFace>>

calcViscousFlux_mpi ==
  /\ fpc > NMpiFaces
  /\ ResCall("calcViscousFlux_mpi")
  /\ fpc' = 1
  /\ UNCHANGED <<divF_spts, faceFn, mpiFace>>

Next ==
  \/ update_begin
  \/ calcDt
  \/ rkTime
  \/ moveMesh
  \/ copyUspts_U0
  \/ calcResidual_call
  \/ timeStepA
  \/ copyU0_Uspts
  \/ timeStepB
  \/ advanceTime
  \/ oversetFieldInterp
  \/ shockCapture
  \/ extrapolateU
  \/ calcAvgSolution
  \/ checkEntropy
  \/ calcGradU_spts
  \/ doCommunication
  \/ calcInviscidFlux_spts
  \/ calcInviscidFlux_faces
  \/ mpiFace_calcInviscidFlux
  \/ calcInviscidFlux_mpi
  \/ oversetInterp
  \/ calcInviscidFlux_overset
  \/ correctGradU
  \/ extrapolateGradU
  \/ doCommunicationGrad
  \/ calcViscousFlux_spts
  \/ calcViscousFlux_faces
  \/ mpiFace_calcViscousFlux
  \/ calcViscousFlux_mpi
  \/ oversetInterp_gradient
  \/ calcViscousFlux_overset
  \/ extrapolateNormalFlux
  \/ calcFluxDivergence
  \/ correctDivFlux
  \/ \E f \in MpiFaces : Deliver(f)
  \/ \E f \in MpiFaces : DeliverGrad(f)

Spec == Init /\ [][Next]_vars


(***************************************************************************)
(* Claims about solver::update and solver::calcResidual.                   *)
(***************************************************************************)
\* update() has returned: updLog holds every call it made
UpdateReturned == upc = 0 /\ params.iter > 0

\* the positions of the calls of `name`, and of the call <<name, step>>
CallsOf(name) == {i \in 1..Len(updLog) : updLog[i][1] = name}
CallAt(name, step) == {i \in 1..Len(updLog) : updLog[i] = <<name, step>>}
Stages == 0..(params.nRKSteps - 1)

\* one snapshot, taken at stage 0 before the first calcResidual
SnapshotOnce ==
  /\ Cardinality(CallsOf("copyUspts_U0")) = 1
  /\ CallsOf("copyUspts_U0") = CallAt("copyUspts_U0", 0)
  /\ \A i \in CallsOf("copyUspts_U0") : \A j \in CallsOf("calcResidual") : i < j

\* timeStepA once for each stage 0..S-2, right after that stage's calcResidual;
\* the restore once, right after calcResidual(S-1), and only when S > 1;
\* then timeStepB once for every stage, in order; then time advanced by dt
StagesRestoreAndFinalUpdate ==
  LET S == params.nRKSteps IN
  /\ \A s \in Stages : Cardinality(CallAt("calcResidual", s)) = 1
  /\ Cardinality(CallsOf("calcResidual")) = S
  /\ \A s \in 0..(S - 2) :
       /\ Cardinality(CallAt("timeStepA", s)) = 1
       /\ \A i \in CallAt("timeStepA", s) : updLog[i - 1] = <<"calcResidual", s>>
  /\ Cardinality(CallsOf("timeStepA")) = S - 1
  /\ Cardinality(CallsOf("copyU0_Uspts")) = (IF S > 1 THEN 1 ELSE 0)
  /\ \A i \in CallsOf("copyU0_Uspts") : updLog[i - 1] = <<"calcResidual", S - 1>>
  /\ \A s \in Stages :
       /\ Cardinality(CallAt("timeStepB", s)) = 1
       /\ \A i \in CallAt("timeStepB", s) :
            /\ i = Len(updLog) - S + s
            /\ \A j \in CallsOf("calcResidual") \cup CallsOf("copyU0_Uspts") : j < i
  /\ Cardinality(CallsOf("timeStepB")) = S
  /\ updLog[Len(updLog)] = <<"advanceTime", S - 1>>
  /\ params.time = QAdd(time0, params.dt)

C1_WitnessSingleStage == UpdateReturned /\ params.nRKSteps = 1

\* the elements C2 speaks of: detJ = 1, advanced by the time-step loops, no
\* multigrid source term, four stages
RK4Case(e) ==
  /\ params.nRKSteps = 4
  /\ detJac_spts[e] = QOne
  /\ e \in Advanced
  /\ ~PMG_Source

\* z = lambda * dt, and U0 times a polynomial c0 + c1 z + c2 z^2 + c3 z^3 + c4 z^4
Z(e) == QMul(Lambda, ele_dt(e))
U0Times(e, c) ==
  QMul(U0[e],
       QAdd(c[1], QAdd(QMul(c[2], Z(e)), QAdd(QMul(c[3], QPow(Z(e), 2)),
            QAdd(QMul(c[4], QPow(Z(e), 3)), QMul(c[5], QPow(Z(e), 4)))))))

LastCall == IF updLog = <<>> THEN <<"none", 0>> ELSE updLog[Len(updLog)]

\* C2: with S = 4, a = {0,1/2,1/2,1}, b = {1/6,1/3,1/3,1/6}, detJ = 1 and
\* divF = lambda*U, the stage states are U0 - a_{s+1} dt divF[s] (that is
\* U0(1 - z/2), U0(1 - z/2 + z^2/4), U0(1 - z + z^2/2 - z^3/4)) and the final
\* state is U0 - dt sum_s b_s divF[s] = U0 (1 - z + z^2/2 - z^3/6 + z^4/24).
C2_ClassicalRK4 ==
  \A e \in Eles : RK4Case(e) =>
    /\ \A s \in 0..2 : LastCall = <<"timeStepA", s>> =>
         /\ U_spts[e] = QSub(U0[e], QMul(QMul(RKa(4)[s + 2], ele_dt(e)),
                                         divF_spts[e][s + 1]))
         /\ U_spts[e] = U0Times(e, CASE s = 0 -> <<QOne, Q(-1, 2), QZero, QZero, QZero>>
                                     [] s = 1 -> <<QOne, Q(-1, 2), Q(1, 4), QZero, QZero>>
                                     [] s = 2 -> <<QOne, Q(-1, 1), Q(1, 2), Q(-1, 4), QZero>>)
    /\ UpdateReturned =>
         /\ U_spts[e] = QSub(U0[e], QMul(ele_dt(e),
               QAdd(QAdd(QMul(RKb(4)[1], divF_spts[e][1]), QMul(RKb(4)[2], divF_spts[e][2])),
                    QAdd(QMul(RKb(4)[3], divF_spts[e][3]), QMul(RKb(4)[4], divF_spts[e][4])))))
         /\ U_spts[e] = U0Times(e, <<QOne, Q(-1, 1), Q(1, 2), Q(-1, 6), Q(1, 24)>>)

\* a four-stage update of an element with detJ = 1 has returned with a changed state
C2_Witness ==
  \E e \in Eles : RK4Case(e) /\ UpdateReturned /\ U0[e] # QZero /\ U_spts[e] # U0[e]

\* the order C3 gives to the calls of one residual evaluation; the calls of
\* the viscous branch share one rank
ResidualRank(name) ==
  CASE name = "oversetFieldInterp" -> 1
    [] name = "shockCapture" -> 2
    [] name = "extrapolateU" -> 3
    [] name = "calcAvgSolution" -> 4
    [] name = "checkEntropy" -> 5
    [] name = "calcGradU_spts" -> 6
    [] name = "doCommunication" -> 7
    [] name = "calcInviscidFlux_spts" -> 8
    [] name = "calcInviscidFlux_faces" -> 9
    [] name = "calcInviscidFlux_mpi" -> 10
    [] name = "oversetInterp" -> 11
    [] name = "calcInviscidFlux_overset" -> 12
    [] name \in {"correctGradU", "extrapolateGradU", "doCommunicationGrad",
                 "calcViscousFlux_spts", "calcViscousFlux_faces",
                 "calcViscousFlux_mpi", "oversetInterp_gradient",
                 "calcViscousFlux_overset"} -> 13
    [] name = "extrapolateNormalFlux" -> 14
    [] name = "calcFluxDivergence" -> 15
    [] name = "correctDivFlux" -> 16

\* the calls the options enable
EnabledCalls ==
  LET overset == params.meshType = OVERSET_MESH IN
  {"extrapolateU", "calcInviscidFlux_spts", "calcInviscidFlux_faces",
   "extrapolateNormalFlux", "calcFluxDivergence", "correctDivFlux"}
  \cup (IF overset /\ params.oversetMethod = 2 THEN {"oversetFieldInterp"} ELSE {})
  \cup (IF params.scFlag = 1 THEN {"shockCapture"} ELSE {})
  \cup (IF params.squeeze THEN {"calcAvgSolution", "checkEntropy"} ELSE {})
  \cup (IF params.viscous \/ params.motion THEN {"calcGradU_spts"} ELSE {})
  \cup (IF withMPI THEN {"doCommunication", "calcInviscidFlux_mpi"} ELSE {})
  \cup (IF overset THEN {"oversetInterp", "calcInviscidFlux_overset"} ELSE {})
  \cup (IF params.viscous THEN {"correctGradU", "calcViscousFlux_spts",
                                "calcViscousFlux_faces"} ELSE {})

ResidualReturned == rpc = 0 /\ resLog # <<>>

\* C3: in every calcResidual(step) the enabled sub-steps run in the order
\* overset field exchange, shock sensor, extrapolation of U, squeezing (Uavg,
\* then checkEntropy), gradient of U, start of the trace exchange, inviscid
\* flux at solution points, common inviscid flux of interior/boundary faces,
\* then MPI faces, then overset faces, the viscous branch, extrapolation of
\* the normal flux, flux divergence, boundary correction; the boundary
\* correction is the last step and runs after every face kind has produced
\* its common flux of the stage.
C3_ResidualOrder ==
  /\ \A i, j \in 1..Len(resLog) : i < j =>
       \/ ResidualRank(resLog[i]) < ResidualRank(resLog[j])
       \/ ResidualRank(resLog[i]) = 13 /\ ResidualRank(resLog[j]) = 13
  /\ \A i \in 1..Len(resLog) : resLog[i] = "correctDivFlux" =>
       /\ i = Len(resLog)
       /\ rpc = 0
       /\ faceFn.interior = stageId
       /\ withMPI => \A f \in MpiFaces : mpiFace[f].inviscidAt = stageId
       /\ (params.meshType = OVERSET_MESH /\ params.oversetMethod # 2)
            => faceFn.overset = stageId
  /\ ResidualReturned =>
       /\ resLog[Len(resLog)] = "correctDivFlux"
       /\ EnabledCalls \subseteq {resLog[i] : i \in 1..Len(resLog)}

\* a residual of a viscous overset MPI run with squeezing and shock capturing
\* has returned
C3_Witness ==
  /\ ResidualReturned
  /\ params.viscous /\ params.squeeze /\ params.scFlag = 1 /\ withMPI
  /\ params.meshType = OVERSET_MESH /\ params.oversetMethod # 2
  /\ Len(resLog) >= 20

\* C4: in every residual stage and for every MPI face, the trace exchange of
\* that stage has been issued and completed before the face's inviscid flux
\* is evaluated, and the gradient exchange before its viscous flux: the right
\* trace a face evaluates with is the one received in the current stage.
C4_MpiTraceOfCurrentStage ==
  \A f \in MpiFaces :
    /\ mpiFace[f].inviscidAt > 0 => mpiFace[f].inviscidFrom = mpiFace[f].inviscidAt
    /\ mpiFace[f].viscousAt > 0 => mpiFace[f].viscousFrom = mpiFace[f].viscousAt

\* an MPI face has evaluated both fluxes in a second or later stage, where an
\* older trace was at hand
C4_Witness ==
  \E f \in MpiFaces :
    /\ mpiFace[f].inviscidAt >= 2
    /\ mpiFace[f].viscousAt = mpiFace[f].inviscidAt


(***************************************************************************)
(* Positivity kernels of one element: ele::checkDensity, ele::checkEntropy *)
(* and ele::checkEntropyPlot for the 2-D Navier-Stokes equations.          *)
(* A conserved state is <<rho, rho*u, rho*v, E>>; field i of the code is   *)
(* component i+1.  Densities, momenta and energies are expressed in units  *)
(* of tol = 1e-10, so tol is 1 and small integers stand for the values.    *)
(***************************************************************************)
NSpts == 2
NFpts == 1
NMpts == 1

nDims == 2
nFields == nDims + 2

\* `double tol = 1e-10`, the unit of the conserved variables
tol == QOne

\* `1e15`, the initial value of minRho and minTau: above every value met
Huge == QInt(1000)

\* params->gamma and params->exps0 (in the units above)
squeezeParams == [gamma |-> 2, exps0 |-> Q(1, 4)]

\* conserved states offered to the points of the element
PointStates ==
  { <<QInt(5), QZero, QZero, QInt(10)>>,
    <<QInt(-2), QInt(2), QZero, QInt(4)>>,
    <<QInt(-1), QZero, QZero, QInt(2)>>,
    <<Q(1, 2), Q(1, 2), QZero, QOne>>,
    <<QInt(2), QZero, QZero, QZero>> }

\* conserved states offered to the mesh points
MeshPointStates ==
  { <<QInt(5), QZero, QZero, QInt(10)>>,
    <<QInt(-2), QInt(2), QZero, QInt(4)>>,
    <<QInt(2), QZero, QZero, QZero>> }

\* (1-w)*a + w*b
Blend(w, a, b) == QAdd(QMul(QSub(QOne, w), a), QMul(w, b))

\* the points of the element that the kernels scan, in scan order: solution
\* points, flux points and (for plotting) mesh points
PointsOf(E, withMpts) ==
  E.U_spts \o E.U_fpts \o (IF withMpts THEN E.U_mpts ELSE <<>>)

RECURSIVE ScanMinRho(_, _, _)
\* the loops `if (U(pt,0) < 0) { negRho = true; minRho = min(minRho, U(pt,0)); }`
\* over the points pts[i..]: the pair <<negRho, minRho>>
ScanMinRho(pts, i, acc) ==
  IF i > Len(pts) THEN acc
  ELSE ScanMinRho(pts, i + 1,
                  IF QLt(pts[i][1], QZero) THEN <<TRUE, QMin(acc[2], pts[i][1])>>
                  ELSE acc)

RECURSIVE ScanFirstNegRho(_, _, _)
\* the same loop ended by `break` at the first negative density
ScanFirstNegRho(pts, i, acc) ==
  IF i > Len(pts) THEN acc
  ELSE IF QLt(pts[i][1], QZero) THEN <<TRUE, QMin(acc[2], pts[i][1])>>
  ELSE ScanFirstNegRho(pts, i + 1, acc)

MinRho_SptsOnly(E, withMpts) ==
  ScanMinRho(E.U_spts, 1, <<FALSE, Huge>>)

\* <<negRho, minRho>> of checkEntropy and checkEntropyPlot
MinRho(E, withMpts) ==
  ScanMinRho(PointsOf(E, withMpts), 1, <<FALSE, Huge>>)

\* <<negRho, minRho>> of checkDensity: each of its two loops stops at the
\* first negative density
MinRhoBreak(E) ==
  ScanFirstNegRho(E.U_fpts, 1, ScanFirstNegRho(E.U_spts, 1, <<FALSE, Huge>>))

\* `eps = abs(Uavg[0] - tol)/(Uavg[0] - minRho)`
DensityEps(E, minRho) ==
  QDiv(QAbs(QSub(E.Uavg[1], tol)), QSub(E.Uavg[1], minRho))

\* `U(pt,0) = (1-eps)*Uavg[0] + eps*U(pt,0)` at every point of an array
SqueezeRho(E, eps, U) ==
  [pt \in 1..Len(U) |-> [U[pt] EXCEPT ![1] = Blend(eps, E.Uavg[1], @)]]

DensitySqueeze_AllFields(E, eps, withMpts) ==
  LET all(U) == [pt \in 1..Len(U) |->
                   [i \in 1..nFields |-> Blend(eps, E.Uavg[i], U[pt][i])]]
  IN  [E EXCEPT !.U_spts = all(@), !.U_fpts = all(@),
                !.U_mpts = IF withMpts THEN all(@) ELSE @]

\* the squeezing on density
DensitySqueeze(E, eps, withMpts) ==
  [E EXCEPT !.U_spts = SqueezeRho(E, eps, @),
            !.U_fpts = SqueezeRho(E, eps, @),
            !.U_mpts = IF withMpts THEN SqueezeRho(E, eps, @) ELSE @]

\* first part of checkEntropy / checkEntropyPlot: check for negative density
\* and squeeze if needed
densityPhase(E, withMpts) ==
  LET m == MinRho(E, withMpts)
  IN  IF m[1] THEN DensitySqueeze(E, DensityEps(E, m[2]), withMpts) ELSE E

\* ele::checkDensity: the squeezed element and the returned negRho
ele_checkDensity(E) ==
  LET m == MinRhoBreak(E)
  IN  [ele |-> IF m[1] THEN DensitySqueeze(E, DensityEps(E, m[2]), FALSE) ELSE E,
       negRho |-> m[1]]

\* ele::getPrimitives, getPrimitivesFpt, getPrimitivesMpt: <<rho, u, v, p>>
getPrimitives(U) ==
  LET u == QDiv(U[2], U[1])
      v == QDiv(U[3], U[1])
      vMagSq == QAdd(QMul(u, u), QMul(v, v))
  IN  <<U[1], u, v,
        QMul(QInt(squeezeParams.gamma - 1),
             QSub(U[nDims + 2], QMul(Q(1, 2), QMul(U[1], vMagSq))))>>

\* `p - params->exps0*std::pow(rho, params->gamma)`
Tau(U) ==
  LET phi == getPrimitives(U)
  IN  QSub(phi[nDims + 2],
           QMul(squeezeParams.exps0, QPow(phi[1], squeezeParams.gamma)))

RECURSIVE ScanMinTau(_, _, _)
\* the loops `minTau = std::min(minTau, tau)` over the points pts[i..]
ScanMinTau(pts, i, acc) ==
  IF i > Len(pts) THEN acc
  ELSE ScanMinTau(pts, i + 1, QMin(acc, Tau(pts[i])))

MinTau(E, withMpts) == ScanMinTau(PointsOf(E, withMpts), 1, Huge)

\* `Eps = minTau / (minTau - p + params->exps0*std::pow(rho, params->gamma))`
\* with rho, p of the element mean
EntropyEps(E, minTau) ==
  LET phi == getPrimitives(E.Uavg)
      rho == phi[1]
      p == phi[nDims + 2]
  IN  QDiv(minTau,
           QAdd(QSub(minTau, p),
                QMul(squeezeParams.exps0, QPow(rho, squeezeParams.gamma))))

\* `U(pt,i) = Eps*Uavg[i] + (1-Eps)*U(pt,i)` for every field at every point
EntropySqueeze(E, Eps, withMpts) ==
  LET all(U) == [pt \in 1..Len(U) |->
                   [i \in 1..nFields |-> Blend(QSub(QOne, Eps), E.Uavg[i], U[pt][i])]]
  IN  [E EXCEPT !.U_spts = all(@), !.U_fpts = all(@),
                !.U_mpts = IF withMpts THEN all(@) ELSE @]

\* second part of checkEntropy / checkEntropyPlot: check for entropy loss and
\* correct if needed
entropyPhase(E, withMpts) ==
  LET minTau == MinTau(E, withMpts)
  IN  IF QLt(minTau, QZero) THEN EntropySqueeze(E, EntropyEps(E, minTau), withMpts)
      ELSE E

ele_checkEntropy(E) == entropyPhase(densityPhase(E, FALSE), FALSE)
ele_checkEntropyPlot(E) == entropyPhase(densityPhase(E, TRUE), TRUE)


(***************************************************************************)
(* The kernels at work on one element.  The element starts with a solution *)
(* at its solution points; the solver extrapolates it to the flux points,  *)
(* averages it and then runs one of the three kernels.                     *)
(***************************************************************************)
SolverIdle ==
  /\ params = CHOOSE p \in PipelineInputs : TRUE
  /\ cflDt = [e \in Eles |-> Q(1, 2)]
  /\ iblankCell = [e \in Eles |-> NORMAL]
  /\ withMPI = FALSE
  /\ PMG_Source = FALSE
  /\ upc = 0 /\ rpc = 0 /\ fpc = 1
  /\ updLog = <<>> /\ resLog = <<>>
  /\ stageId = 0
  /\ time0 = QZero
  /\ U_spts = [e \in Eles |-> QInt(e)]
  /\ U0 = [e \in Eles |-> QZero]
  /\ divF_spts = [e \in Eles |-> [s \in 1..params.nRKSteps |-> QZero]]
  /\ dt_ele = [e \in Eles |-> QZero]
  /\ faceFn = [interior |-> 0, overset |-> 0]
  /\ mpiFace = [f \in MpiFaces |-> IdleFace]

InitSqueeze ==
  /\ el \in [U_spts : [1..NSpts -> PointStates], U_fpts : {<<>>},
             U_mpts : {<<>>}, Uavg : {<<>>}]
  /\ el0 = NoElement
  /\ sqpc = "spts"
  /\ sqRet = FALSE
  /\ SolverIdle /\ ParIdle /\ GeomIdle /\ KernelIdle

\* oper::applySptsFpts, called by solver::extrapolateU: the flux-point states
sq_extrapolateU ==
  /\ sqpc = "spts"
  /\ \E Uf \in [1..NFpts -> PointStates] : el' = [el EXCEPT !.U_fpts = Uf]
  /\ sqpc' = "fpts"
  /\ UNCHANGED <<el0, sqRet, solverVars, parVars, geomVars, kernelVars>>

RECURSIVE SumField(_, _, _)
SumField(U, i, n) == IF n = 0 THEN QZero ELSE QAdd(U[n][i], SumField(U, i, n - 1))

\* oper::calcAvgU: the element mean by quadrature, here with equal weights
\* on an element of constant Jacobian
calcAvgU(U) ==
  [i \in 1..nFields |-> QDiv(SumField(U, i, Len(U)), QInt(Len(U)))]

sq_calcAvgSolution ==
  /\ sqpc = "fpts"
  /\ el' = [el EXCEPT !.Uavg = calcAvgU(el.U_spts)]
  /\ sqpc' = "avg"
  /\ UNCHANGED <<el0, sqRet, solverVars, parVars, geomVars, kernelVars>>

\* ele::checkEntropy up to the end of the squeezing on density
checkEntropy_density ==
  /\ sqpc = "avg"
  /\ el0' = el
  /\ el' = densityPhase(el, FALSE)
  /\ sqpc' = "checkEntropy:density"
  /\ UNCHANGED <<sqRet, solverVars, parVars, geomVars, kernelVars>>

\* the rest of ele::checkEntropy
checkEntropy_entropy ==
  /\ sqpc = "checkEntropy:density"
  /\ el' = entropyPhase(el, FALSE)
  /\ sqpc' = "checkEntropy:done"
  /\ UNCHANGED <<el0, sqRet, solverVars, parVars, geomVars, kernelVars>>

\* ele::checkDensity
checkDensity_ele ==
  /\ sqpc = "avg"
  /\ el0' = el
  /\ el' = ele_checkDensity(el).ele
  /\ sqRet' = ele_checkDensity(el).negRho
  /\ sqpc' = "checkDensity:done"
  /\ UNCHANGED <<solverVars, parVars, geomVars, kernelVars>>

\* oper::applySptsMpts, called by solver::extrapolateUMpts before plotting
sq_extrapolateUMpts ==
  /\ sqpc = "avg"
  /\ \E Um \in [1..NMpts -> MeshPointStates] : el' = [el EXCEPT !.U_mpts = Um]
  /\ sqpc' = "mpts"
  /\ UNCHANGED <<el0, sqRet, solverVars, parVars, geomVars, kernelVars>>

\* ele::checkEntropyPlot up to the end of the squeezing on density
checkEntropyPlot_density ==
  /\ sqpc = "mpts"
  /\ el0' = el
  /\ el' = densityPhase(el, TRUE)
  /\ sqpc' = "checkEntropyPlot:density"
  /\ UNCHANGED <<sqRet, solverVars, parVars, geomVars, kernelVars>>

\* the rest of ele::checkEntropyPlot
checkEntropyPlot_entropy ==
  /\ sqpc = "checkEntropyPlot:density"
  /\ el' = entropyPhase(el, TRUE)
  /\ sqpc' = "checkEntropyPlot:done"
  /\ UNCHANGED <<el0, sqRet, solverVars, parVars, geomVars, kernelVars>>

NextSqueeze ==
  \/ sq_extrapolateU
  \/ sq_calcAvgSolution
  \/ checkEntropy_density
  \/ checkEntropy_entropy
  \/ checkDensity_ele
  \/ sq_extrapolateUMpts
  \/ checkEntropyPlot_density
  \/ checkEntropyPlot_entropy

SpecSqueeze == InitSqueeze /\ [][NextSqueeze]_vars


(***************************************************************************)
(* Claims about the squeezing on density.                                  *)
(***************************************************************************)
\* the squeezing on density of checkEntropy / checkEntropyPlot has just ended
AfterDensityPhase == sqpc \in {"checkEntropy:density", "checkEntropyPlot:density"}
PlotKernel == sqpc = "checkEntropyPlot:density"

\* the point arrays the running kernel works on
ArraysOf(E) == {"U_spts", "U_fpts"} \cup (IF PlotKernel THEN {"U_mpts"} ELSE {})

\* the densities the kernel found on entry, and the least of them
EntryDensities ==
  {el0[a][pt][1] : <<a, pt>> \in {ap \in ArraysOf(el0) \X (1..(NSpts + NFpts + NMpts)) :
                                  ap[2] <= Len(el0[ap[1]])}}
RhoMin == CHOOSE r \in EntryDensities : \A q \in EntryDensities : QLe(r, q)
SqueezeFired == \E r \in EntryDensities : QLt(r, QZero)

\* eps = (Uavg[0] - tol)/(Uavg[0] - rho_min)
EpsOfClaim == QDiv(QSub(el0.Uavg[1], tol), QSub(el0.Uavg[1], RhoMin))

\* C9: when a solution or flux point has negative density and Uavg[0] > tol,
\* the squeezing on density of checkEntropy blends every density with
\* eps = (Uavg[0]-tol)/(Uavg[0]-rho_min), rho_min being the least density over
\* all solution and flux points; afterwards the density at the worst point is
\* tol and the density at every solution and flux point is at least tol.
C9_DensitySqueeze ==
  (sqpc = "checkEntropy:density" /\ SqueezeFired /\ QLt(tol, el0.Uavg[1])) =>
    \A a \in {"U_spts", "U_fpts"} : \A pt \in 1..Len(el0[a]) :
      /\ el[a][pt][1] = Blend(EpsOfClaim, el0.Uavg[1], el0[a][pt][1])
      /\ el0[a][pt][1] = RhoMin => el[a][pt][1] = tol
      /\ QLe(tol, el[a][pt][1])

\* the squeeze has fired on an element whose worst point is its flux point,
\* with a second, less negative density at a solution point
C9_Witness ==
  /\ sqpc = "checkEntropy:density" /\ QLt(tol, el0.Uavg[1])
  /\ el0.U_fpts[1][1] = RhoMin
  /\ \E s \in 1..NSpts : QLt(el0.U_spts[s][1], QZero) /\ QLt(RhoMin, el0.U_spts[s][1])
  /\ el.U_fpts[1][1] = tol

\* the factor the code computes
EpsOfCode == QDiv(QAbs(QSub(el0.Uavg[1], tol)), QSub(el0.Uavg[1], RhoMin))

\* C10 as stated: when the squeeze on negative density fires, every conserved
\* field at every solution and flux point is blended toward its element mean
\* with the same factor eps.
C10_Original ==
  (AfterDensityPhase /\ SqueezeFired) =>
    \A a \in ArraysOf(el0) : \A pt \in 1..Len(el0[a]) : \A i \in 1..nFields :
      el[a][pt][i] = Blend(EpsOfCode, el0.Uavg[i], el0[a][pt][i])

\* C10: when the squeeze on negative density fires, the density, and only the
\* density, at every solution point and flux point (and mesh point when
\* plotting) is blended toward its element mean with the same factor eps;
\* the momentum components and the energy keep their values.
C10_DensityOnly ==
  (AfterDensityPhase /\ SqueezeFired) =>
    \A a \in ArraysOf(el0) : \A pt \in 1..Len(el0[a]) :
      /\ el[a][pt][1] = Blend(EpsOfCode, el0.Uavg[1], el0[a][pt][1])
      /\ \A i \in 2..nFields : el[a][pt][i] = el0[a][pt][i]

\* the squeeze has fired with a factor other than 1 on an element holding a
\* point whose momentum and energy differ from the element mean
C10_Witness ==
  /\ AfterDensityPhase /\ SqueezeFired
  /\ EpsOfCode # QOne /\ EpsOfCode # Undef
  /\ \E pt \in 1..NSpts :
       el0.U_spts[pt][2] # el0.Uavg[2] /\ el0.U_spts[pt][4] # el0.Uavg[4]


(***************************************************************************)
(* The parallel-for loops of the solver over its elements.  Every          *)
(* iteration runs on a thread of its own and the threads interleave at     *)
(* their accesses to memory.  Two loops are modelled: solver::checkEntropy *)
(* and solver::checkDensity.                                               *)
(***************************************************************************)
\* an element whose points all hold the state X, except flux points holding Y
UniformElement(X, Y) ==
  [U_spts |-> [s \in 1..NSpts |-> X], U_fpts |-> [f \in 1..NFpts |-> Y],
   U_mpts |-> <<>>, Uavg |-> X]

\* elements offered to the loops: a healthy one, one with negative density at
\* its flux points, one that lost entropy at its flux points
LoopElements ==
  { UniformElement(<<QInt(5), QZero, QZero, QInt(10)>>, <<QInt(5), QZero, QZero, QInt(10)>>),
    UniformElement(<<QInt(5), QZero, QZero, QInt(10)>>, <<QInt(-2), QInt(2), QZero, QInt(4)>>),
    UniformElement(<<QInt(5), QZero, QZero, QInt(10)>>, <<QInt(2), QZero, QZero, QZero>>) }

InitPar ==
  /\ parLoop \in {"checkEntropy", "checkDensity"}
  /\ parEles \in [Eles -> LoopElements]
  /\ squeezed = FALSE
  /\ iter = [i \in Eles |-> [pc |-> "call", check |-> FALSE, rhs |-> FALSE]]
  /\ touched = [i \in Eles |-> {}]
  /\ SolverIdle /\ SqueezeIdle /\ GeomIdle /\ KernelIdle

Touch(i, locs) == touched' = [touched EXCEPT ![i] = @ \cup locs]

\* one iteration of the loop of solver::checkEntropy
checkEntropy_iteration(i) ==
  /\ parLoop = "checkEntropy" /\ iter[i].pc = "call"
  /\ parEles' = [parEles EXCEPT ![i] = ele_checkEntropy(@)]
  /\ iter' = [iter EXCEPT ![i].pc = "done"]
  /\ Touch(i, {<<<<"eles", i>>, "r">>, <<<<"eles", i>>, "w">>})
  /\ UNCHANGED <<parLoop, squeezed, solverVars, squeezeVars, geomVars, kernelVars>>

\* `bool check = eles[i]->checkDensity();`
checkDensity_call(i) ==
  /\ parLoop = "checkDensity" /\ iter[i].pc = "call"
  /\ parEles' = [parEles EXCEPT ![i] = ele_checkDensity(@).ele]
  /\ iter' = [iter EXCEPT ![i].check = ele_checkDensity(parEles[i]).negRho,
                          ![i].pc = "or"]
  /\ Touch(i, {<<<<"eles", i>>, "r">>, <<<<"eles", i>>, "w">>})
  /\ UNCHANGED <<parLoop, squeezed, solverVars, squeezeVars, geomVars, kernelVars>>

\* `squeezed = check || squeezed;`, evaluation of the right-hand side: the
\* shared `squeezed` is read unless check is true
checkDensity_or(i) ==
  /\ parLoop = "checkDensity" /\ iter[i].pc = "or"
  /\ IF iter[i].check
     THEN /\ iter' = [iter EXCEPT ![i].rhs = TRUE, ![i].pc = "store"]
          /\ UNCHANGED touched
     ELSE /\ iter' = [iter EXCEPT ![i].rhs = squeezed, ![i].pc = "store"]
          /\ Touch(i, {<<<<"squeezed", 0>>, "r">>})
  /\ UNCHANGED <<parLoop, parEles, squeezed, solverVars, squeezeVars, geomVars, kernelVars>>

\* `squeezed = check || squeezed;`, the store to the shared `squeezed`
checkDensity_store(i) ==
  /\ parLoop = "checkDensity" /\ iter[i].pc = "store"
  /\ squeezed' = iter[i].rhs
  /\ iter' = [iter EXCEPT ![i].pc = "done"]
  /\ Touch(i, {<<<<"squeezed", 0>>, "w">>})
  /\ UNCHANGED <<parLoop, parEles, solverVars, squeezeVars, geomVars, kernelVars>>

NextPar ==
  \/ \E i \in Eles : checkEntropy_iteration(i)
  \/ \E i \in Eles : checkDensity_call(i)
  \/ \E i \in Eles : checkDensity_or(i)
  \/ \E i \in Eles : checkDensity_store(i)

SpecPar == InitPar /\ [][NextPar]_vars

\* every iteration of the running loop has ended
LoopDone == parLoop # "none" /\ \A i \in Eles : iter[i].pc = "done"

\* no iteration has read or written a location that another iteration of the
\* loop has written
NoSharedWrites ==
  \A i \in Eles : \A j \in Eles \ {i} :
    \A w \in touched[i] : \A a \in touched[j] : w[2] = "w" => a[1] # w[1]

\* C5: in every parallel-for loop of the solver no iteration reads or writes
\* a location that another iteration of the same loop writes, so the state
\* after the loop is that of the sequential loop for every interleaving of
\* the iterations: solver::checkDensity returns true exactly when one of its
\* elements was squeezed.
C5_LoopIterationsIndependent ==
  /\ NoSharedWrites
  /\ (LoopDone /\ parLoop = "checkDensity") =>
       (squeezed <=> \E i \in Eles : iter[i].check)

\* the loop of solver::checkDensity has ended with `squeezed` false although
\* an element was squeezed
LostSqueeze ==
  /\ LoopDone /\ parLoop = "checkDensity"
  /\ ~squeezed /\ \E i \in Eles : iter[i].check


(***************************************************************************)
(* Geometry of one straight-sided 4-node quad: ele::setupAllGeometry,      *)
(* ele::move and ele::calcTransforms.  Node coordinates are integers on a  *)
(* grid whose steps are 3 and 4, and only quads whose edges have integer   *)
(* lengths are taken, so that every sqrt() of calcTransforms is exact.     *)
(* Orders 0 (Gauss-Legendre: the single point 0), 1 and 2 (Gauss-Lobatto:  *)
(* -1,1 and -1,0,1) have rational points.                                  *)
(***************************************************************************)
GridN == 1

\* positions offered to the nodes: node 1 is the origin, node 2 lies on the
\* x axis (on node 1 when the bottom edge is collapsed)
GridPoints == {<<3 * i, 4 * j>> : i \in -1..1, j \in -1..GridN}
AxisPoints == {<<0, 0>>, <<3, 0>>}
Orders == {0, 1, 2}

IsSquare(n) == \E k \in 0..n : k * k = n
IntSqrt(n) == CHOOSE k \in 0..n : k * k = n

\* sqrt() of a rational that is the square of a rational
QSqrt(q) == <<IntSqrt(q[1]), IntSqrt(q[2])>>

\* `std::fabs(x) < 1e-10`: the lengths met are 0 or at least 1/2
BelowCollapseTol(x) == x = QZero

EdgeLengthSq(a, b) == (a[1] - b[1]) * (a[1] - b[1]) + (a[2] - b[2]) * (a[2] - b[2])
ExactQuad(nd) == \A i \in 1..4 : IsSquare(EdgeLengthSq(nd[i], nd[(i % 4) + 1]))

\* the 1-D point distribution of order p
pts1D(p) == CASE p = 0 -> <<0>>
              [] p = 1 -> <<-1, 1>>
              [] p = 2 -> <<-1, 0, 1>>

\* getLocSpts: the tensor product of the 1-D points (spt counted from 0)
loc_spts(p) ==
  [s \in 1..((p + 1) * (p + 1)) |->
     <<pts1D(p)[((s - 1) % (p + 1)) + 1], pts1D(p)[((s - 1) \div (p + 1)) + 1]>>]

\* getLocFpts: the 1-D points on the faces bottom, right, top, left, going
\* round the element counter-clockwise
loc_fpts(p) ==
  [f \in 1..(4 * (p + 1)) |->
     LET iFace == (f - 1) \div (p + 1)
         r == ((f - 1) % (p + 1)) + 1
     IN  CASE iFace = 0 -> <<pts1D(p)[r], -1>>
           [] iFace = 1 -> <<1, pts1D(p)[r]>>
           [] iFace = 2 -> <<pts1D(p)[p + 2 - r], 1>>
           [] iFace = 3 -> <<-1, pts1D(p)[p + 2 - r]>>]

\* reference positions of the nodes of the 4-node quad
xiNodes == <<<<-1, -1>>, <<1, -1>>, <<1, 1>>, <<-1, 1>>>>

\* dshape_quad: derivatives of the bilinear shape functions at loc, times 4;
\* dShape4[i][dim] for node i and reference direction dim
dshape_quad4(loc) ==
  [i \in 1..4 |->
     << xiNodes[i][1] * (1 + xiNodes[i][2] * loc[2]),
        xiNodes[i][2] * (1 + xiNodes[i][1] * loc[1]) >>]

RECURSIVE SumNodes(_, _, _, _, _)
\* sum over nodes 1..i of dShape4(i,dim2)*nodes[i][dim1]
SumNodes(dShape4, nd, dim1, dim2, i) ==
  IF i = 0 THEN 0
  ELSE dShape4[i][dim2] * nd[i][dim1] + SumNodes(dShape4, nd, dim1, dim2, i - 1)

\* Jac(dim1,dim2) += dShape(i,dim2)*nodes[i][dim1]
Jacobian(loc, nd) ==
  LET dShape4 == dshape_quad4(loc)
  IN  [dim1 \in 1..2 |-> [dim2 \in 1..2 |-> Q(SumNodes(dShape4, nd, dim1, dim2, 4), 4)]]

\* `detJac = Jac(0,0)*Jac(1,1) - Jac(1,0)*Jac(0,1)`
Det2(J) == QSub(QMul(J[1][1], J[2][2]), QMul(J[2][1], J[1][2]))

\* inverse of the transformation matrix times its determinant
Adjoint2(J) == << <<J[2][2], QNeg(J[1][2])>>, <<QNeg(J[2][1]), J[1][1]>> >>

tNorm_Clockwise(fpt, p) ==
  LET iFace == (fpt - 1) \div (p + 1)
  IN  CASE iFace = 0 -> <<QZero, QInt(-1)>>
        [] iFace = 1 -> <<QInt(-1), QZero>>
        [] iFace = 2 -> <<QZero, QOne>>
        [] iFace = 3 -> <<QOne, QZero>>

\* ele::setTransformedNormals_fpts for QUAD: the unit normal of the face of
\* flux point fpt in the parent domain
tNorm(fpt, p) ==
  LET iFace == (fpt - 1) \div (p + 1)
  IN  CASE iFace = 0 -> <<QZero, QInt(-1)>>
        [] iFace = 1 -> <<QOne, QZero>>
        [] iFace = 2 -> <<QZero, QOne>>
        [] iFace = 3 -> <<QInt(-1), QZero>>

\* the face normal taken from reference to physical space:
\* norm(dim1) += JGinv(dim2,dim1) * tNorm(dim2)
PhysNormal(JGinv, t) ==
  [dim1 \in 1..2 |-> QAdd(QMul(JGinv[1][dim1], t[1]), QMul(JGinv[2][dim1], t[2]))]

\* magnitude of the face normal
Magnitude(n) == QSqrt(QAdd(QMul(n[1], n[1]), QMul(n[2], n[2])))

NormAndArea_NotNormalized(JGinv, t) ==
  LET n == PhysNormal(JGinv, t)
      dA == Magnitude(n)
  IN  IF BelowCollapseTol(QAbs(dA)) THEN [norm |-> <<QZero, QZero>>, dA |-> QZero]
      ELSE [norm |-> n, dA |-> dA]

\* norm_fpts and dA_fpts of one flux point: the normal, its magnitude, and
\* the normalization (a collapsed edge gets a zero normal)
NormAndArea(JGinv, t) ==
  LET n == PhysNormal(JGinv, t)
      dA == Magnitude(n)
  IN  IF BelowCollapseTol(QAbs(dA)) THEN [norm |-> <<QZero, QZero>>, dA |-> QZero]
      ELSE [norm |-> <<QDiv(n[1], dA), QDiv(n[2], dA)>>, dA |-> dA]

\* `if (detJac_spts[spt]<0) FatalError("Negative Jacobian at solution points.")`
FatalAtSpts(detJac) ==
  \E spt \in 1..Len(detJac) : QLt(detJac[spt], QZero)

\* ele::calcTransforms(moving) on the nodes nd (nodes, or nodesRK when
\* moving): the element it leaves, and whether it ended in FatalError (the
\* flux-point loop is then not reached)
calcTransforms(g, nd) ==
  LET p == g.order
      Js == [spt \in 1..Len(loc_spts(p)) |-> Jacobian(loc_spts(p)[spt], nd)]
      Jf == [fpt \in 1..Len(loc_fpts(p)) |-> Jacobian(loc_fpts(p)[fpt], nd)]
      na == [fpt \in 1..Len(loc_fpts(p)) |->
               NormAndArea(Adjoint2(Jf[fpt]), g.tNorm_fpts[fpt])]
      atSpts == [g EXCEPT !.detJac_spts = [spt \in 1..Len(Js) |-> Det2(Js[spt])],
                          !.JGinv_spts = [spt \in 1..Len(Js) |-> Adjoint2(Js[spt])]]
  IN  IF FatalAtSpts(atSpts.detJac_spts) THEN [ele |-> atSpts, fatal |-> TRUE]
      ELSE [ele |-> [atSpts EXCEPT
                       !.detJac_fpts = [fpt \in 1..Len(Jf) |-> Det2(Jf[fpt])],
                       !.JGinv_fpts = [fpt \in 1..Len(Jf) |-> Adjoint2(Jf[fpt])],
                       !.norm_fpts = [fpt \in 1..Len(Jf) |-> na[fpt].norm],
                       !.dA_fpts = [fpt \in 1..Len(Jf) |-> na[fpt].dA]],
            fatal |-> FALSE]

\* the element after ele::setup has sized its arrays
InitGeom ==
  /\ \E p \in Orders, m \in {1, 4}, n2 \in AxisPoints, n3 \in GridPoints, n4 \in GridPoints :
       /\ ExactQuad(<<<<0, 0>>, n2, n3, n4>>)
       /\ gel = [order |-> p, motion |-> m,
                 nodes |-> <<<<0, 0>>, n2, n3, n4>>,
                 nodesRK |-> <<<<0, 0>>, n2, n3, n4>>,
                 tNorm_fpts |-> <<>>,
                 detJac_spts |-> <<>>, JGinv_spts |-> <<>>,
                 detJac_fpts |-> <<>>, JGinv_fpts |-> <<>>,
                 norm_fpts |-> <<>>, dA_fpts |-> <<>>]
  /\ gpc = "setup"
  /\ SolverIdle /\ SqueezeIdle /\ ParIdle /\ KernelIdle

\* ele::setupAllGeometry: setTransformedNormals_fpts, then calcTransforms()
setupAllGeometry ==
  /\ gpc = "setup"
  /\ LET g == [gel EXCEPT !.tNorm_fpts =
                 [fpt \in 1..Len(loc_fpts(gel.order)) |-> tNorm(fpt, gel.order)]]
         r == calcTransforms(g, g.nodes)
     IN  /\ gel' = r.ele
         /\ gpc' = IF r.fatal THEN "fatal" ELSE "static"
  /\ UNCHANGED <<solverVars, squeezeVars, parVars, kernelVars>>

\* displacements offered to the mesh motion
Displacements == {<<3, 4>>, <<-3, 0>>, <<0, -4>>}

\* ele::move(true) after the mesh nodes have moved: nodesRK is read from the
\* mesh, and the transforms are recomputed unless the motion is a rigid
\* translation (motion 4).  A rigid translation displaces every node, the
\* other motion deforms the element by displacing its third node.
move ==
  /\ gpc \in {"static", "moved"}
  /\ \E d \in Displacements :
       LET shifted == [i \in 1..4 |->
                         IF gel.motion = 4 \/ i = 3
                         THEN <<gel.nodes[i][1] + d[1], gel.nodes[i][2] + d[2]>>
                         ELSE gel.nodes[i]]
           g == [gel EXCEPT !.nodesRK = shifted]
       IN  /\ ExactQuad(shifted)
           /\ shifted # gel.nodesRK
           /\ IF gel.motion # 4
              THEN LET r == calcTransforms(g, shifted)
                   IN  gel' = r.ele /\ gpc' = (IF r.fatal THEN "fatal" ELSE "moved")
              ELSE gel' = g /\ gpc' = "moved"
  /\ UNCHANGED <<solverVars, squeezeVars, parVars, kernelVars>>

NextGeom ==
  \/ setupAllGeometry
  \/ move

SpecGeom == InitGeom /\ [][NextGeom]_vars


(***************************************************************************)
(* Claims about ele::calcTransforms.                                       *)
(***************************************************************************)
\* calcTransforms has run (at setup, or again after a mesh motion) and has
\* returned normally
TransformsDone == gpc \in {"static", "moved"}
Spts == 1..Len(gel.detJac_spts)
Fpts == 1..Len(gel.detJac_fpts)

\* C6: calcTransforms ends in a fatal error whenever the Jacobian determinant
\* at a solution point or at a flux point is non-positive; whenever it
\* returns normally every detJac_spts and every detJac_fpts is strictly
\* positive.
C6_FatalOnNonPositiveJacobian ==
  TransformsDone =>
    /\ \A spt \in Spts : QLt(QZero, gel.detJac_spts[spt])
    /\ \A fpt \in Fpts : QLt(QZero, gel.detJac_fpts[fpt])

\* calcTransforms has returned normally from an element whose Jacobian is
\* positive at every solution point and negative at a flux point
NegativeAtFluxPoint ==
  /\ TransformsDone
  /\ \A spt \in Spts : QLt(QZero, gel.detJac_spts[spt])
  /\ \E fpt \in Fpts : QLt(gel.detJac_fpts[fpt], QZero)

\* calcTransforms has returned normally from an element whose Jacobian is
\* zero at a solution point
ZeroAtSolutionPoint ==
  /\ TransformsDone
  /\ \E spt \in Spts : gel.detJac_spts[spt] = QZero

\* squared Euclidean length of a stored normal
LengthSq(n) == QAdd(QMul(n[1], n[1]), QMul(n[2], n[2]))

\* C7 as stated: after calcTransforms the Euclidean length of the stored
\* norm_fpts equals the stored dA_fpts at every flux point.
C7_Original ==
  TransformsDone =>
    \A fpt \in Fpts :
      /\ QLe(QZero, gel.dA_fpts[fpt])
      /\ LengthSq(gel.norm_fpts[fpt]) = QMul(gel.dA_fpts[fpt], gel.dA_fpts[fpt])

\* the nodes calcTransforms last worked on
CurrentNodes == IF gpc = "moved" /\ gel.motion # 4 THEN gel.nodesRK ELSE gel.nodes

\* the face normal in physical space before normalization, JGinv^T tNorm
RawNormal(fpt) ==
  PhysNormal(Adjoint2(Jacobian(loc_fpts(gel.order)[fpt], CurrentNodes)),
             gel.tNorm_fpts[fpt])

\* C7: after calcTransforms, at every flux point dA_fpts is the Euclidean
\* length of the transformed face normal JGinv^T tNorm and the stored
\* norm_fpts is that normal divided by dA_fpts: a vector of length 1 where
\* dA_fpts > 0, and the zero vector at a collapsed flux point, where
\* dA_fpts = 0.
C7_UnitNormal ==
  TransformsDone =>
    \A fpt \in Fpts :
      /\ QLe(QZero, gel.dA_fpts[fpt])
      /\ QMul(gel.dA_fpts[fpt], gel.dA_fpts[fpt]) = LengthSq(RawNormal(fpt))
      /\ QLt(QZero, gel.dA_fpts[fpt]) => LengthSq(gel.norm_fpts[fpt]) = QOne
      /\ gel.dA_fpts[fpt] = QZero => gel.norm_fpts[fpt] = <<QZero, QZero>>

\* calcTransforms has returned from an element with a collapsed edge and
\* with a face whose dA_fpts is neither 0 nor 1
C7_Witness ==
  /\ TransformsDone
  /\ \E fpt \in Fpts : gel.dA_fpts[fpt] = QZero
  /\ \E fpt \in Fpts : QLt(QOne, gel.dA_fpts[fpt])

RECURSIVE SumNormals(_, _)
\* sum over the flux points 1..fpt of norm_fpts(fpt,dim)*dA_fpts[fpt]
SumNormals(dim, fpt) ==
  IF fpt = 0 THEN QZero
  ELSE QAdd(QMul(gel.norm_fpts[fpt][dim], gel.dA_fpts[fpt]), SumNormals(dim, fpt - 1))

ValidGeometry ==
  /\ \A spt \in Spts : QLt(QZero, gel.detJac_spts[spt])
  /\ \A fpt \in Fpts : QLt(QZero, gel.detJac_fpts[fpt])

\* C8: for a quad with valid (positive-Jacobian) straight-sided geometry and
\* any order, the sum over all flux points of norm_fpts*dA_fpts is the zero
\* vector componentwise.
C8_GeometricClosure ==
  (TransformsDone /\ ValidGeometry) =>
    \A dim \in 1..2 : SumNormals(dim, Len(gel.dA_fpts)) = QZero

\* calcTransforms has returned, after a deformation of the mesh, from a valid
\* order-2 quad whose opposite faces differ in length
C8_Witness ==
  /\ gpc = "moved" /\ gel.motion # 4 /\ ValidGeometry
  /\ gel.order = 2
  /\ gel.dA_fpts[1] # gel.dA_fpts[7]
  /\ gel.dA_fpts[4] # gel.dA_fpts[10]


(***************************************************************************)
(* A second squeezing pass directly after the first: solver::calcResidual  *)
(* runs calcAvgSolution and checkEntropy again on the element as the first *)
(* pass left it.                                                           *)
(***************************************************************************)
\* conserved states of gas at rest offered to the solution and flux points
RestPointStates ==
  { <<QInt(5), QZero, QZero, QInt(10)>>,
    <<QInt(2), QZero, QZero, QOne>>,
    <<QInt(2), QZero, QZero, QZero>> }

\* the element as solver::extrapolateU leaves it
InitSqueezeTwice ==
  /\ el \in [U_spts : [1..NSpts -> RestPointStates],
             U_fpts : [1..NFpts -> RestPointStates],
             U_mpts : {<<>>}, Uavg : {<<>>}]
  /\ el0 = NoElement
  /\ sqpc = "fpts"
  /\ sqRet = FALSE
  /\ SolverIdle /\ ParIdle /\ GeomIdle /\ KernelIdle

\* solver::calcAvgSolution of the second pass
sq_calcAvgSolution_again ==
  /\ sqpc = "checkEntropy:done"
  /\ el' = [el EXCEPT !.Uavg = calcAvgU(el.U_spts)]
  /\ sqpc' = "avg:second"
  /\ UNCHANGED <<el0, sqRet, solverVars, parVars, geomVars, kernelVars>>

\* solver::checkEntropy of the second pass: the whole of ele::checkEntropy
checkEntropy_again ==
  /\ sqpc = "avg:second"
  /\ el0' = el
  /\ el' = ele_checkEntropy(el)
  /\ sqpc' = "checkEntropy:second"
  /\ UNCHANGED <<sqRet, solverVars, parVars, geomVars, kernelVars>>

NextSqueezeTwice ==
  \/ sq_calcAvgSolution
  \/ checkEntropy_density
  \/ checkEntropy_entropy
  \/ sq_calcAvgSolution_again
  \/ checkEntropy_again

SpecSqueezeTwice == InitSqueezeTwice /\ [][NextSqueezeTwice]_vars

\* C11: squeezing is idempotent: a second pass (calcAvgSolution, then
\* checkEntropy) directly after a first one leaves U_spts and U_fpts exactly
\* as the first pass left them.
C11_SqueezeIdempotent ==
  sqpc = "checkEntropy:second" =>
    el.U_spts = el0.U_spts /\ el.U_fpts = el0.U_fpts


(***************************************************************************)
(* The squeeze block of solver::calcResidual on one element of either      *)
(* equation.  A std::vector read past its size is undefined behaviour: the *)
(* value read is any of the values of Garbage.                             *)
(***************************************************************************)
ADVECTION_DIFFUSION == "ADVECTION_DIFFUSION"
NAVIER_STOKES == "NAVIER_STOKES"

\* params->nFields: one scalar, or density, momentum and energy
nFieldsOf(equation) == IF equation = ADVECTION_DIFFUSION THEN 1 ELSE nDims + 2

\* values offered to the scalar of an advection-diffusion element
ScalarStates == { <<QInt(-1)>>, <<QOne>>, <<QInt(2)>> }

Garbage == { QInt(-1), QZero, QInt(3) }

\* `V[i]` of a std::vector (i counted from 0); g is what a read past the end gives
VectorRead(V, i, g) == IF i < Len(V) THEN V[i + 1] ELSE g

\* ele::getPrimitives / getPrimitivesFpt: a vector of nFields entries
getPrimitivesOf(equation, U) ==
  IF equation = ADVECTION_DIFFUSION THEN <<U[1]>> ELSE getPrimitives(U)

InitSqueezeBlock ==
  /\ \E eq \in {ADVECTION_DIFFUSION, NAVIER_STOKES} :
       LET States == IF eq = ADVECTION_DIFFUSION THEN ScalarStates ELSE RestPointStates
       IN  kin \in [equation : {eq}, squeeze : BOOLEAN,
                    U_spts : [1..NSpts -> States], U_fpts : [1..NFpts -> States]]
  /\ kpc = "extrapolateU"
  /\ kloc = NoElement
  /\ SolverIdle /\ SqueezeIdle /\ ParIdle /\ GeomIdle

\* `if (params->squeeze)` is false: the block is skipped
squeezeBlock_skip ==
  /\ kpc = "extrapolateU"
  /\ ~kin.squeeze
  /\ kpc' = "skipped"
  /\ UNCHANGED <<kin, kloc, solverVars, squeezeVars, parVars, geomVars>>

\* calcAvgSolution, then ele::checkEntropy up to `if (minTau < 0)`: the density
\* squeeze and the two loops that read phi[0] and phi[nDims+1] at every point
checkEntropy_minTau ==
  /\ kpc = "extrapolateU"
  /\ kin.squeeze
  /\ \E g \in [1..(NSpts + NFpts) -> Garbage] :
       LET n == nFieldsOf(kin.equation)
           Uavg == [i \in 1..n |->
                      QDiv(SumField(kin.U_spts, i, NSpts), QInt(NSpts))]
           E == densityPhase([U_spts |-> kin.U_spts, U_fpts |-> kin.U_fpts,
                              U_mpts |-> <<>>, Uavg |-> Uavg], FALSE)
           pts == PointsOf(E, FALSE)
           phi == [k \in 1..Len(pts) |-> getPrimitivesOf(kin.equation, pts[k])]
           tau == [k \in 1..Len(pts) |->
                     QSub(VectorRead(phi[k], nDims + 1, g[k]),
                          QMul(squeezeParams.exps0,
                               QPow(VectorRead(phi[k], 0, g[k]), squeezeParams.gamma)))]
       IN  kloc' = [ele |-> E,
                    minTau |-> QMin(Huge, QMinOver(tau, 1..Len(pts))),
                    reads |-> {<<Len(phi[k]), i>> : k \in 1..Len(pts), i \in {0, nDims + 1}}]
  /\ kpc' = "minTau"
  /\ UNCHANGED <<kin, solverVars, squeezeVars, parVars, geomVars>>

\* the rest of ele::checkEntropy: the squeeze toward Uavg when minTau < 0, which
\* reads Uavg[0], Uavg[1], Uavg[2] and Uavg[nDims+1]
checkEntropy_squeeze ==
  /\ kpc = "minTau"
  /\ IF QLt(kloc.minTau, QZero)
     THEN \E g \in [0..(nDims + 1) -> Garbage] :
            LET E == kloc.ele
                A == [i \in 0..(nDims + 1) |-> VectorRead(E.Uavg, i, g[i])]
                Eps == EntropyEps([Uavg |-> <<A[0], A[1], A[2], A[nDims + 1]>>],
                                  kloc.minTau)
                all(U) == [pt \in 1..Len(U) |->
                             [i \in 1..Len(E.Uavg) |->
                                Blend(QSub(QOne, Eps), E.Uavg[i], U[pt][i])]]
            IN  kloc' = [kloc EXCEPT
                           !.ele = [E EXCEPT !.U_spts = all(@), !.U_fpts = all(@)],
                           !.reads = @ \cup {<<Len(E.Uavg), i>> :
                                               i \in {0, 1, 2, nDims + 1}}]
     ELSE UNCHANGED kloc
  /\ kpc' = "checkEntropy:done"
  /\ UNCHANGED <<kin, solverVars, squeezeVars, parVars, geomVars>>

NextSqueezeBlock ==
  \/ squeezeBlock_skip
  \/ checkEntropy_minTau
  \/ checkEntropy_squeeze

SpecSqueezeBlock == InitSqueezeBlock /\ [][NextSqueezeBlock]_vars

\* C12: the entropy-bound step is evaluated only when the equation is
\* Euler/Navier-Stokes, and with the advection-diffusion equation and squeezing
\* enabled no entry with index nDims+1 is read from a vector of nFields = 1
\* entries.
C12_EntropyStepOnlyForNavierStokes ==
  kpc \in {"minTau", "checkEntropy:done"} =>
    /\ kin.equation = NAVIER_STOKES
    /\ \A r \in kloc.reads : r[2] < r[1]


(***************************************************************************)
(* ele::getRefLocNewton and ele::calcTransforms_point.  A double is a      *)
(* dyadic number <<m, e>> = m * 2^e (m odd, or <<0, 0>> for zero), exact;  *)
(* DNaN stands for the results of a division by zero.                      *)
(***************************************************************************)
RECURSIVE D(_, _)
D(m, e) == IF m = 0 THEN <<0, 0>>
           ELSE IF m % 2 = 0 THEN D(m \div 2, e + 1) ELSE <<m, e>>
DNaN == <<0, 1>>
RECURSIVE Pow2(_)
Pow2(k) == IF k = 0 THEN 1 ELSE 2 * Pow2(k - 1)
RECURSIVE Log2(_)
Log2(n) == IF n < 2 THEN 0 ELSE 1 + Log2(n \div 2)
DAdd(a, b) ==
  IF a = DNaN \/ b = DNaN THEN DNaN
  ELSE IF a[1] = 0 THEN b
  ELSE IF b[1] = 0 THEN a
  ELSE LET e == IF a[2] < b[2] THEN a[2] ELSE b[2]
       IN  D(a[1] * Pow2(a[2] - e) + b[1] * Pow2(b[2] - e), e)
DNeg(a) == <<-a[1], a[2]>>
DSub(a, b) == DAdd(a, DNeg(b))
DMul(a, b) ==
  IF a = DNaN \/ b = DNaN THEN DNaN ELSE D(a[1] * b[1], a[2] + b[2])
\* a / b for a divisor that is a power of two times an odd divisor of a's
\* mantissa, as every divisor met here is
DDiv(a, b) ==
  IF a = DNaN \/ b = DNaN \/ b[1] = 0 THEN DNaN
  ELSE LET s == IF b[1] < 0 THEN -1 ELSE 1
           q == CHOOSE q \in {(s * a[1]) \div (s * b[1])} : q * (s * b[1]) = s * a[1]
       IN  D(q, a[2] - b[2])
DSign(a) == IF a[1] > 0 THEN 1 ELSE IF a[1] < 0 THEN -1 ELSE 0
\* a < b (false when either is not a number)
DLt(a, b) ==
  /\ a # DNaN /\ b # DNaN
  /\ IF DSign(a) # DSign(b) THEN DSign(a) < DSign(b)
     ELSE IF DSign(a) = 0 THEN FALSE
     ELSE LET ta == a[2] + Log2(Abs(a[1]))
              tb == b[2] + Log2(Abs(b[1]))
              e == IF a[2] < b[2] THEN a[2] ELSE b[2]
          IN  IF ta # tb THEN (IF DSign(a) > 0 THEN ta < tb ELSE tb < ta)
              ELSE a[1] * Pow2(a[2] - e) < b[1] * Pow2(b[2] - e)
\* std::min(a, b) and std::max(a, b)
DMin(a, b) == IF DLt(b, a) THEN b ELSE a
DMax(a, b) == IF DLt(a, b) THEN b ELSE a
DZero == <<0, 0>>
DOne == <<1, 0>>

QUAD == "QUAD"
HEX == "HEX"
TRI == "TRI"

\* `double eps = 1e-10` and the factor 1e-12 of `tol = 1e-12*h`, taken as the
\* nearest powers of two
eps == D(1, -33)
tolFactor == D(1, -40)
iterMax == 20
BadLoc == <<D(99, 0), D(99, 0), D(99, 0)>>

\* node coordinates of the elements offered to the search: the reference
\* square, a square turned by 45 degrees, a quad of size 4L whose third node
\* lies on the line through its second and fourth, and the reference cube
SquareNodes ==
  <<<<D(-1, 0), D(-1, 0), DZero>>, <<DOne, D(-1, 0), DZero>>,
    <<DOne, DOne, DZero>>, <<D(-1, 0), DOne, DZero>>>>
DiamondNodes ==
  <<<<DZero, D(-2, 0), DZero>>, <<D(2, 0), DZero, DZero>>,
    <<DZero, D(2, 0), DZero>>, <<D(-2, 0), DZero, DZero>>>>
DartNodes(L) ==
  <<<<D(4, L), DZero, DZero>>, <<DZero, D(2, L), DZero>>,
    <<DZero, DZero, DZero>>, <<DZero, D(-2, L), DZero>>>>
CubeNodes ==
  [n \in 1..8 |-> <<D(2 * ((n - 1) % 2) - 1, 0), D(2 * (((n - 1) \div 2) % 2) - 1, 0),
                    D(2 * ((n - 1) \div 4) - 1, 0)>>]

NewtonCases ==
  [eType : {QUAD}, nodes : {SquareNodes},
   pos : {<<DZero, DZero, DZero>>, <<D(1, -1), D(-1, -1), DZero>>,
          <<DOne, DOne, DZero>>, <<D(2, 0), DZero, DZero>>,
          <<DZero, D(-3, 0), DZero>>}]
  \cup [eType : {QUAD}, nodes : {DiamondNodes},
        pos : {<<D(2, 0), D(2, 0), DZero>>, <<DOne, DZero, DZero>>,
               <<D(-2, 0), D(2, 0), DZero>>}]
  \cup [eType : {QUAD}, nodes : {DartNodes(34), DartNodes(36)},
        pos : {<<DZero, DZero, DZero>>}]
  \cup [eType : {HEX}, nodes : {CubeNodes},
        pos : {<<DZero, DZero, DZero>>, <<DZero, DZero, D(2, 0)>>}]

nDimsOf(eType) == IF eType = HEX THEN 3 ELSE 2

\* shape_quad and dshape_quad for the 4-node quad: shape function n and its
\* derivative in reference direction j at loc
shape_quad(loc, n) ==
  DMul(D(1, -2), DMul(DAdd(DOne, DMul(D(xiNodes[n][1], 0), loc[1])),
                      DAdd(DOne, DMul(D(xiNodes[n][2], 0), loc[2]))))
dshape_quad(loc, n, j) ==
  DMul(D(xiNodes[n][j], -2), DAdd(DOne, DMul(D(xiNodes[n][3 - j], 0), loc[3 - j])))

\* matrix::det and matrix::adjoint of a 2x2 matrix
DDet2(g) == DSub(DMul(g[1][1], g[2][2]), DMul(g[1][2], g[2][1]))
DAdjoint2(g) == << <<g[2][2], DNeg(g[1][2])>>, <<DNeg(g[2][1]), g[1][1]>> >>

\* `grad(i,j) += nodes[n][i]*dshape(n,j)` over the nodes
gradOf(nodes, loc) ==
  [i \in 1..2 |-> [j \in 1..2 |->
     LET t(n) == DMul(nodes[n][i], dshape_quad(loc, n, j))
     IN  DAdd(DAdd(DAdd(t(1), t(2)), t(3)), t(4))]]

\* ele::getBoundingBox: <<min, max>> over the nodes in each of the 3 dimensions
getBoundingBox(nodes) ==
  [d \in 1..3 |->
     LET V == {nodes[n][d] : n \in 1..Len(nodes)}
     IN  <<CHOOSE v \in V : \A w \in V : ~DLt(w, v),
           CHOOSE v \in V : \A w \in V : ~DLt(v, w)>>]

\* one pass through the body of the while loop of getRefLocNewton on a quad:
\* the new loc and norm.  (A shape function times a node coordinate that is
\* zero is zero.)
NewtonIteration(nodes, pos, loc) ==
  LET t(n, i) == IF nodes[n][i] = DZero /\ loc[1] # DNaN /\ loc[2] # DNaN THEN DZero
                 ELSE DMul(shape_quad(loc, n), nodes[n][i])
      dx == [i \in 1..2 |->
               DSub(DSub(DSub(DSub(pos[i], t(1, i)), t(2, i)), t(3, i)), t(4, i))]
      grad == gradOf(nodes, loc)
      detJ == DDet2(grad)
      ginv == DAdjoint2(grad)
      delta == [i \in 1..2 |->
                  DAdd(DDiv(DMul(ginv[i][1], dx[1]), detJ),
                       DDiv(DMul(ginv[i][2], dx[2]), detJ))]
  IN  [norm |-> DAdd(DMul(dx[1], dx[1]), DMul(dx[2], dx[2])),
       loc |-> <<DMax(DMin(DAdd(loc[1], delta[1]), DOne), D(-1, 0)),
                 DMax(DMin(DAdd(loc[2], delta[2]), DOne), D(-1, 0)),
                 loc[3]>>]

InitNewton ==
  /\ kin \in {[eType |-> c.eType, nodes |-> c.nodes, pos |-> c.pos, motion |-> m] :
                c \in NewtonCases, m \in {0, 1}}
  /\ kpc \in {"getRefLocNewton", "calcTransforms_point"}
  /\ kloc = [loc |-> <<DZero, DZero, DZero>>, iter |-> 0, norm |-> DOne, tol |-> DZero,
             ret |-> "none", calls |-> {}]
  /\ SolverIdle /\ SqueezeIdle /\ ParIdle /\ GeomIdle

\* getRefLocNewton up to its while loop: the bounding-box test and the tolerance
getRefLocNewton_box ==
  /\ kpc = "getRefLocNewton"
  /\ LET box == getBoundingBox(kin.nodes)
         outside == \E d \in 1..3 :
                      \/ DLt(DSub(kin.pos[d], box[d][1]), DNeg(eps))
                      \/ DLt(eps, DSub(kin.pos[d], box[d][2]))
         ext(d) == DSub(box[d][2], box[d][1])
         h2 == DMin(ext(1), ext(2))
         h == IF nDimsOf(kin.eType) = 3 THEN DMin(h2, ext(3)) ELSE h2
     IN  IF outside
         THEN /\ kloc' = [kloc EXCEPT !.loc = BadLoc, !.ret = "false"]
              /\ kpc' = "returned"
         ELSE /\ kloc' = [kloc EXCEPT !.tol = DMul(tolFactor, h)]
              /\ kpc' = "while"
  /\ UNCHANGED <<kin, solverVars, squeezeVars, parVars, geomVars>>

\* one pass through the loop body.  It calls shape_quad and dshape_quad whatever
\* the element type; what they compute on the 8 nodes of a hex is left open
getRefLocNewton_iteration ==
  /\ kpc = "while"
  /\ DLt(kloc.tol, kloc.norm) /\ kloc.iter < iterMax
  /\ \E converged \in BOOLEAN :
       LET it == IF kin.eType = QUAD
                 THEN NewtonIteration(kin.nodes, kin.pos, kloc.loc)
                 ELSE [norm |-> IF converged THEN DZero ELSE DOne, loc |-> kloc.loc]
       IN  /\ kin.eType = QUAD => converged
           /\ kloc' = [kloc EXCEPT !.norm = it.norm, !.loc = it.loc,
                                   !.iter = @ + 1,
                                   !.calls = @ \cup {"shape_quad", "dshape_quad"},
                                   !.ret = IF kloc.iter + 1 = iterMax THEN "false" ELSE @]
           /\ kpc' = IF kloc.iter + 1 = iterMax THEN "returned" ELSE "while"
  /\ UNCHANGED <<kin, solverVars, squeezeVars, parVars, geomVars>>

\* the loop condition fails: `return true`
getRefLocNewton_found ==
  /\ kpc = "while"
  /\ ~(DLt(kloc.tol, kloc.norm) /\ kloc.iter < iterMax)
  /\ kloc' = [kloc EXCEPT !.ret = "true"]
  /\ kpc' = "returned"
  /\ UNCHANGED <<kin, solverVars, squeezeVars, parVars, geomVars>>

\* ele::calcTransforms_point at the reference origin: the shape kernels it
\* calls, and detJac of a quad
calcTransforms_point ==
  /\ kpc = "calcTransforms_point"
  /\ LET detJac == IF kin.eType = QUAD THEN DDet2(gradOf(kin.nodes, kloc.loc)) ELSE DOne
     IN  kloc' = [kloc EXCEPT
           !.calls = {IF nDimsOf(kin.eType) = 2 THEN "dshape_quad" ELSE "dshape_hex"}
                     \cup (IF kin.motion # 0 THEN {"shape_quad"} ELSE {}),
           !.norm = detJac,
           !.ret = IF DLt(detJac, DZero) THEN "fatal" ELSE "void"]
  /\ kpc' = "returned:calcTransforms_point"
  /\ UNCHANGED <<kin, solverVars, squeezeVars, parVars, geomVars>>

NextNewton ==
  \/ getRefLocNewton_box
  \/ getRefLocNewton_iteration
  \/ getRefLocNewton_found
  \/ calcTransforms_point

SpecNewton == InitNewton /\ [][NextNewton]_vars

\* C13: whenever getRefLocNewton returns false, because the query lies outside
\* the bounding box or because the iteration did not converge within its
\* limit, the output location is the sentinel {99,99,99}.
C13_SentinelOnFailure ==
  kpc = "returned" /\ kloc.ret = "false" => kloc.loc = BadLoc

\* C14: getRefLocNewton performs at most 20 Newton iterations and returns true
\* if and only if its convergence test (norm <= tol) is satisfied within those
\* iterations; a search whose residual reaches the tolerance on the 20th
\* iteration is reported as converged.
C14_TrueIffConverged ==
  kpc = "returned" /\ kloc.loc # BadLoc =>
    /\ kloc.iter <= iterMax
    /\ kloc.ret = "true" <=> ~DLt(kloc.tol, kloc.norm)

\* C15: getRefLocNewton, and calcTransforms_point on a moving mesh, evaluate
\* the shape functions of the element's own type: the hex kernels for HEX
\* elements and the quad kernels for QUAD elements.
C15_ShapeKernelsOfOwnType ==
  kpc \in {"returned", "returned:calcTransforms_point"} =>
    kloc.calls \subseteq (IF kin.eType = HEX THEN {"shape_hex", "dshape_hex"}
                          ELSE {"shape_quad", "dshape_quad"})


(***************************************************************************)
(* superMesh::clipTet and superMesh::integrate.  Points and vectors are    *)
(* triples of rationals.  The clipping normal enters clipTet only through  *)
(* the sign of dx*norm and the ratio (norm*ac)/(norm*ab), so a normal that *)
(* is not of unit length gives the same result.                            *)
(***************************************************************************)
V3Sub(a, b) == [i \in 1..3 |-> QSub(a[i], b[i])]
V3Dot(a, b) == QAdd(QAdd(QMul(a[1], b[1]), QMul(a[2], b[2])), QMul(a[3], b[3]))

\* `ab*((norm*ac)/(norm*ab)) + a`: where the edge a-b meets the clipping plane
Intersect_Midpoint(a, b, xc, norm) ==
  [i \in 1..3 |-> QMul(Q(1, 2), QAdd(a[i], b[i]))]

Intersect(a, b, xc, norm) ==
  LET ab == V3Sub(b, a)
      ac == V3Sub(xc, a)
      alpha == QDiv(V3Dot(norm, ac), V3Dot(norm, ab))
  IN  [i \in 1..3 |-> QAdd(QMul(ab[i], alpha), a[i])]

\* the face centroid xc
Centroid(clipFace) ==
  [i \in 1..3 |->
     QDiv(QAdd(QAdd(clipFace[1][i], clipFace[2][i]), clipFace[3][i]), QInt(Len(clipFace)))]

\* the set deadPts: the nodes (counted from 0) on the cut side of the plane
deadPts(tet, clipFace, norm) ==
  {i \in 0..3 : QLt(QZero, V3Dot(V3Sub(tet[i + 1], Centroid(clipFace)), norm))}

\* flipTet of cases 1 and 3, and of case 2
flipTet(k) == CASE k = 0 -> <<1, 3, 2>> [] k = 1 -> <<0, 2, 3>>
                [] k = 2 -> <<0, 3, 1>> [] k = 3 -> <<0, 1, 2>>
flipTet2(keep) == CASE keep = <<0, 1>> -> <<0, 1, 2, 3>> [] keep = <<0, 2>> -> <<1, 2, 0, 3>>
                    [] keep = <<0, 3>> -> <<1, 3, 2, 0>> [] keep = <<1, 2>> -> <<2, 0, 1, 3>>
                    [] keep = <<1, 3>> -> <<3, 0, 2, 1>> [] keep = <<2, 3>> -> <<3, 2, 1, 0>>

clipTet_DropsUncutTet(tet, clipFace, norm) ==
  <<>>

\* superMesh::clipTet: the sequence outTets
clipTet(tet, clipFace, norm) ==
  LET xc == Centroid(clipFace)
      dead == deadPts(tet, clipFace, norm)
      nd(i) == tet[i + 1]
      lowest(S) == CHOOSE i \in S : \A j \in S : i <= j
      highest(S) == CHOOSE i \in S : \A j \in S : i >= j
  IN  CASE Cardinality(dead) = 0 -> <<tet>>
        [] Cardinality(dead) = 1 ->
             LET kill == lowest(dead)
                 ePts == flipTet(kill)
                 newPts == [i \in 1..3 |-> Intersect(nd(kill), nd(ePts[i]), xc, norm)]
             IN  << <<nd(ePts[1]), nd(ePts[2]), newPts[1], nd(ePts[3])>>,
                    <<nd(ePts[3]), newPts[1], newPts[3], newPts[2]>>,
                    <<nd(ePts[2]), nd(ePts[3]), newPts[2], newPts[1]>> >>
        [] Cardinality(dead) = 2 ->
             LET kept == (0..3) \ dead
                 ind == flipTet2(<<lowest(kept), highest(kept)>>)
                 newPts == << Intersect(nd(ind[1]), nd(ind[4]), xc, norm),
                              Intersect(nd(ind[2]), nd(ind[4]), xc, norm),
                              Intersect(nd(ind[2]), nd(ind[3]), xc, norm),
                              Intersect(nd(ind[1]), nd(ind[3]), xc, norm) >>
             IN  << <<nd(ind[2]), newPts[1], newPts[4], nd(ind[1])>>,
                    <<newPts[1], newPts[4], newPts[2], nd(ind[2])>>,
                    <<newPts[2], newPts[4], newPts[3], nd(ind[2])>> >>
        [] Cardinality(dead) = 3 ->
             LET keep == lowest((0..3) \ dead)
                 ePts == flipTet(keep)
             IN  << <<Intersect(nd(keep), nd(ePts[1]), xc, norm),
                      Intersect(nd(keep), nd(ePts[2]), xc, norm),
                      Intersect(nd(keep), nd(ePts[3]), xc, norm),
                      nd(keep)>> >>
        [] Cardinality(dead) = 4 -> <<>>

\* the tetrahedron of spec example F, and the clipping planes offered: three
\* points of the face and a normal; the last plane is parallel to no edge
UnitTet ==
  << <<QZero, QZero, QZero>>, <<QOne, QZero, QZero>>,
     <<QZero, QOne, QZero>>, <<QZero, QZero, QOne>> >>
ClipPlanes ==
  LET face(a, b, c) == <<a, b, c>>
      pm(f, n) == {[clipFace |-> f, norm |-> [i \in 1..3 |-> QInt(s * n[i])]] : s \in {-1, 1}}
  IN  pm(<< <<Q(4, 5), QZero, QZero>>, <<QZero, Q(4, 5), QZero>>, <<QZero, QZero, Q(4, 5)>> >>,
         <<1, 1, 1>>)
      \cup pm(<< <<Q(1, 2), QZero, QZero>>, <<Q(1, 2), QOne, QZero>>, <<Q(1, 2), QZero, QOne>> >>,
              <<1, 0, 0>>)
      \cup pm(<< <<Q(1, 2), QZero, QZero>>, <<QZero, Q(1, 2), QZero>>, <<Q(1, 2), QZero, QOne>> >>,
              <<1, 1, 0>>)
      \cup pm(<< <<QInt(2), QZero, QZero>>, <<QInt(2), QOne, QZero>>, <<QInt(2), QZero, QOne>> >>,
              <<1, 0, 0>>)
      \cup pm(<< <<Q(1, 4), QZero, QZero>>, <<QZero, Q(1, 2), QZero>>, <<QZero, QZero, Q(-1, 2)>> >>,
              <<2, 1, -1>>)

\* values a function that ends without a return statement may hand back
GarbageValues == {QZero, Q(1, 6), QInt(7)}

InitSuperMesh ==
  /\ \E p \in Permutations(1..4), c \in ClipPlanes, extra \in {0, 1} :
       kin = [tet |-> [i \in 1..4 |-> UnitTet[p[i]]],
              clipFace |-> c.clipFace, norm |-> c.norm, extra |-> extra]
  /\ kpc = "clipTet"
  /\ kloc = NoElement
  /\ SolverIdle /\ SqueezeIdle /\ ParIdle /\ GeomIdle

superMesh_clipTet ==
  /\ kpc = "clipTet"
  /\ kloc' = [outTets |-> clipTet(kin.tet, kin.clipFace, kin.norm)]
  /\ kpc' = "integrate"
  /\ UNCHANGED <<kin, solverVars, squeezeVars, parVars, geomVars>>

\* superMesh::integrate over the clipped tets with one quadrature point per
\* tet: data holds nQpts + extra values.  The loops are empty and the function
\* ends without a return statement
superMesh_integrate ==
  /\ kpc = "integrate"
  /\ LET nTets == Len(kloc.outTets)
         nQpts == nTets
         data == [q \in 1..(nQpts + kin.extra) |-> QInt(q)]
     IN  IF Len(data) # nQpts
         THEN /\ kloc' = [outTets |-> kloc.outTets, data |-> data, val |-> QZero,
                          ret |-> QZero]
              /\ kpc' = "FatalError"
         ELSE /\ \E g \in GarbageValues :
                   kloc' = [outTets |-> kloc.outTets, data |-> data, val |-> QZero,
                            ret |-> g]
              /\ kpc' = "integrated"
  /\ UNCHANGED <<kin, solverVars, squeezeVars, parVars, geomVars>>

NextSuperMesh ==
  \/ superMesh_clipTet
  \/ superMesh_integrate

SpecSuperMesh == InitSuperMesh /\ [][NextSuperMesh]_vars

\* volume of a tetrahedron: |det(b-a, c-a, d-a)|/6
Volume(t) ==
  LET u == V3Sub(t[2], t[1])
      v == V3Sub(t[3], t[1])
      w == V3Sub(t[4], t[1])
      cross == << QSub(QMul(v[2], w[3]), QMul(v[3], w[2])),
                  QSub(QMul(v[3], w[1]), QMul(v[1], w[3])),
                  QSub(QMul(v[1], w[2]), QMul(v[2], w[1])) >>
  IN  QDiv(QAbs(V3Dot(u, cross)), QInt(6))

RECURSIVE TotalVolume(_, _)
TotalVolume(tets, n) ==
  IF n = 0 THEN QZero ELSE QAdd(Volume(tets[n]), TotalVolume(tets, n - 1))

Clipped == kpc # "clipTet"
NDead == Cardinality(deadPts(kin.tet, kin.clipFace, kin.norm))

\* C16 as stated: clipTet produces 0, 1, 3 and 3 output tetrahedra when
\* 0, 1, 2 and 3 vertices lie on the cut side, and none when all 4 do.
C16_Original ==
  Clipped => Len(kloc.outTets) = CASE NDead = 0 -> 0 [] NDead = 1 -> 1 [] NDead = 2 -> 3
                                   [] NDead = 3 -> 3 [] NDead = 4 -> 0

\* C16: clipTet produces 1, 3, 3 and 1 output tetrahedra when respectively
\* 0, 1, 2 and 3 vertices of the input tetrahedron lie on the cut side of the
\* clipping plane, and no output when all 4 vertices lie on the cut side.
C16_OutputCount ==
  Clipped => Len(kloc.outTets) = CASE NDead = 0 -> 1 [] NDead = 1 -> 3 [] NDead = 2 -> 3
                                   [] NDead = 3 -> 1 [] NDead = 4 -> 0

C16_Witness == Clipped /\ NDead = 1 /\ Len(kloc.outTets) = 3

\* the input of spec example F: the unit tetrahedron and the plane
\* x + y + z = 0.8 with the normal along (1,1,1)
ExampleF ==
  /\ kin.tet = UnitTet
  /\ kin.norm = <<QOne, QOne, QOne>>
  /\ Centroid(kin.clipFace) = <<Q(4, 15), Q(4, 15), Q(4, 15)>>

\* C17 as stated: the clipping of example F produces three tetrahedra whose
\* total volume is the original volume 1/6 minus (1-0.8)^3/6.
C17_Original ==
  Clipped /\ ExampleF =>
    /\ Len(kloc.outTets) = 3
    /\ TotalVolume(kloc.outTets, Len(kloc.outTets)) = QSub(Q(1, 6), Q(1, 750))

\* C17: clipping the tetrahedron {(0,0,0),(1,0,0),(0,1,0),(0,0,1)} by the
\* plane x+y+z = 0.8 with outward normal (1,1,1)/sqrt(3) finds three vertices
\* on the cut side and produces one tetrahedron, the corner at the origin,
\* whose volume is 0.8^3/6.
C17_CornerTet ==
  Clipped /\ ExampleF =>
    /\ NDead = 3
    /\ Len(kloc.outTets) = 1
    /\ kloc.outTets[1][4] = <<QZero, QZero, QZero>>
    /\ TotalVolume(kloc.outTets, 1) = Q(64, 750)

C17_Witness == kpc = "integrate" /\ ExampleF /\ Len(kloc.outTets) = 1

RECURSIVE QuadratureSum(_, _, _)
QuadratureSum(tets, data, n) ==
  IF n = 0 THEN QZero
  ELSE QAdd(QMul(QMul(Q(1, 6), data[n]), QMul(QInt(6), Volume(tets[n]))),
            QuadratureSum(tets, data, n - 1))

\* C18: for data holding one value per supermesh quadrature point, integrate
\* returns the sum over all tets and all tet quadrature points of
\* w_q * data_q * detJ_local (here one point per tet, w = 1/6, detJ = 6 * volume).
C18_IntegrateReturnsSum ==
  kpc = "integrated" =>
    kloc.ret = QuadratureSum(kloc.outTets, kloc.data, Len(kloc.outTets))



\* ---------------------------------------------------------------------------
\* ele::setup: element types, orders and point sets it is called with
SetupOrders == {-1, 0, 1, 2}
SptsTypes == {"Legendre", "Lobatto"}

\* number of solution / flux points getLocSpts, getLocFpts return for the
\* tensor-product elements
nSptsOf(eType, order) == (order + 1) ^ nDimsOf(eType)
nFptsOf(eType, order) == 2 * nDimsOf(eType) * ((order + 1) ^ (nDimsOf(eType) - 1))

\* the first part of ele::setup gone wrong: every element type is accepted
setupBasic_AnyType(eType, in_order, inParams) ==
  [order    |-> IF in_order >= 0 THEN in_order ELSE inParams.order,
   nDims    |-> inParams.nDims,
   nFields  |-> inParams.nFields,
   sptsType |-> inParams.sptsTypeQuad,
   fatal    |-> FALSE]

\* the first part of ele::setup: order, nDims, nFields, and the point type
\* or the fatal error "Only quads and hexes implemented."
setupBasic(eType, in_order, inParams) ==
  [order    |-> IF in_order >= 0 THEN in_order ELSE inParams.order,
   nDims    |-> inParams.nDims,
   nFields  |-> inParams.nFields,
   sptsType |-> IF eType = QUAD \/ eType = HEX THEN inParams.sptsTypeQuad ELSE "unset",
   fatal    |-> ~(eType = QUAD \/ eType = HEX)]

\* the arrays ele::setupArrays sizes, as name |-> <<rows, columns>>
setupArrays(e, inParams) ==
  [U_spts |-> <<e.nSpts, e.nFields>>, U_fpts |-> <<e.nFpts, e.nFields>>,
   disFn_fpts |-> <<e.nFpts, e.nFields>>, dFn_fpts |-> <<e.nFpts, e.nFields>>,
   Fn_fpts |-> <<e.nFpts, e.nFields>>,
   divF_spts |-> <<inParams.nRKSteps, e.nSpts, e.nFields>>,
   F_spts |-> <<e.nDims, e.nSpts, e.nFields>>, F_fpts |-> <<e.nDims, e.nFpts, e.nFields>>,
   dF_spts |-> <<e.nDims, e.nDims>>, tempF |-> <<e.nDims, e.nFields>>]

NoArrays == [unsized |-> <<>>]

InitSetup ==
  /\ \E eType \in {QUAD, HEX, TRI}, in_order \in SetupOrders, o \in Orders,
        st \in SptsTypes, rk \in {1, 4} :
       kin = [eType |-> eType, in_order |-> in_order,
              params |-> [order |-> o, nDims |-> nDimsOf(eType),
                          nFields |-> nDimsOf(eType) + 2, sptsTypeQuad |-> st,
                          nRKSteps |-> rk]]
  /\ kpc = "setup"
  /\ kloc = [order |-> -1, nDims |-> 0, nFields |-> 0, sptsType |-> "unset",
             nSpts |-> 0, nFpts |-> 0, pos_spts |-> 0, pos_fpts |-> 0,
             arrays |-> NoArrays, calls |-> <<>>]
  /\ SolverIdle /\ SqueezeIdle /\ ParIdle /\ GeomIdle

\* ele::setup up to the point sets: FatalError ends the program, otherwise
\* getLocSpts / getLocFpts give the points and pos_spts, pos_fpts are resized
ele_setup ==
  /\ kpc = "setup"
  /\ LET b == setupBasic(kin.eType, kin.in_order, kin.params)
         e == [kloc EXCEPT !.order = b.order, !.nDims = b.nDims,
                           !.nFields = b.nFields, !.sptsType = b.sptsType]
     IN  IF b.fatal
         THEN /\ kloc' = e
              /\ kpc' = "FatalError"
         ELSE /\ kloc' = [e EXCEPT !.nSpts = nSptsOf(kin.eType, b.order),
                                   !.nFpts = nFptsOf(kin.eType, b.order),
                                   !.pos_spts = nSptsOf(kin.eType, b.order),
                                   !.pos_fpts = nFptsOf(kin.eType, b.order),
                                   !.calls = <<"getLocSpts", "getLocFpts">>]
              /\ kpc' = "setupArrays"
  /\ UNCHANGED <<kin, solverVars, squeezeVars, parVars, geomVars>>

\* ele::setup, the call of setupArrays
ele_setupArrays ==
  /\ kpc = "setupArrays"
  /\ kloc' = [kloc EXCEPT !.arrays = setupArrays(kloc, kin.params),
                          !.calls = Append(@, "setupArrays")]
  /\ kpc' = "setupAllGeometry"
  /\ UNCHANGED <<kin, solverVars, squeezeVars, parVars, geomVars>>

\* ele::setup, the call of setupAllGeometry
ele_setupAllGeometry ==
  /\ kpc = "setupAllGeometry"
  /\ kloc' = [kloc EXCEPT !.calls = Append(@, "setupAllGeometry")]
  /\ kpc' = "setup:done"
  /\ UNCHANGED <<kin, solverVars, squeezeVars, parVars, geomVars>>

NextSetup == ele_setup \/ ele_setupArrays \/ ele_setupAllGeometry

SpecSetup == InitSetup /\ [][NextSetup]_vars

\* C19: ele::setup on an element whose type is neither QUAD nor HEX ends in
\* the fatal error, with no per-element array sized (setupArrays not called)
\* and no geometry computed (setupAllGeometry not called).
C19_FatalBeforeArrays ==
  ~(kin.eType = QUAD \/ kin.eType = HEX) /\ kpc # "setup" =>
    /\ kpc = "FatalError"
    /\ kloc.calls = <<>>
    /\ kloc.arrays = NoArrays
    /\ kloc.nSpts = 0 /\ kloc.pos_spts = 0

C19_Witness == kpc = "FatalError" /\ kin.eType = TRI /\ kloc.calls = <<>>



\* ---------------------------------------------------------------------------
\* Restart round trip: ele::getPrimitivesPlot, the restart file, ele::restart
MaxPlotOrder == 2

RECURSIVE Flatten(_)
Flatten(ss) == IF ss = <<>> THEN <<>> ELSE Head(ss) \o Flatten(Tail(ss))

Rep(x, n) == [m \in 1..n |-> x]

\* loop `for (int i=0; i<n; i++)` whose body appends Body[i] to a list
ForLoop(Body, n) == Flatten([m \in 1..n |-> Body[m - 1]])

nPlotPts(nD, order) == (order + 3) ^ nD

\* the solution-point assignment of the QUAD branch gone wrong: the source
\* index is transposed
sptsWrite2D_Transposed(order, i, j) ==
  <<(i+1)*(order+3)+j+1, "spts", i+j*(order+1)>>

\* `int id = (i+1)*(order+3)+j+1; V(id,k) = U_spts(j+i*(order+1),k);`
sptsWrite2D(order, i, j) ==
  <<(i+1)*(order+3)+j+1, "spts", j+i*(order+1)>>

\* `V(i+1+nPts1D*(j+1)+(k+1)*P22,f) = U_spts(i+(order+1)*(j+(order+1)*k),f);`
sptsWrite3D(order, i, j, k) ==
  <<i+1+(order+3)*(j+1)+(k+1)*(order+3)*(order+3), "spts",
    i+(order+1)*(j+(order+1)*k)>>

\* the assignments `V(id, .) = U_xxx(src, .)` of getPrimitivesPlot for a QUAD,
\* in the order the code makes them, as <<id, array, src>>
PlotWritesQuad(order, nFpts) ==
  LET corners == << <<0, "mpts", 0>>, <<order+2, "mpts", 1>>,
                    <<(order+3)*(order+3)-1, "mpts", 2>>,
                    <<(order+3)*(order+2), "mpts", 3>> >>
      fpts == ForLoop([i \in 0..order |->
                << <<i+1, "fpts", i>>,
                   <<(i+1)*(order+3), "fpts", nFpts-i-1>>,
                   <<(i+2)*(order+3)-1, "fpts", order+1+i>>,
                   <<(order+3)*(order+2)+i+1, "fpts", 3*(order+1)-i-1>> >>],
                order + 1)
      spts == ForLoop([i \in 0..order |->
                ForLoop([j \in 0..order |-> <<sptsWrite2D(order, i, j)>>], order + 1)],
                order + 1)
  IN  corners \o fpts \o spts

\* the same for a HEX
PlotWritesHex(order) ==
  LET nPts1D == order + 3
      P22 == nPts1D * nPts1D
      nv == 8
      ne == 12
      top == (order+2) * P22
      base2 == nPts1D * (order+2)
      P12 == (order+1) * (order+1)
      corners == << <<0, "mpts", 0>>, <<order+2, "mpts", 1>>, <<P22-1, "mpts", 2>>,
                    <<nPts1D*(order+2), "mpts", 3>>,
                    <<top, "mpts", 4>>, <<top + order+2, "mpts", 5>>,
                    <<top + P22-1, "mpts", 6>>, <<top + nPts1D*(order+2), "mpts", 7>> >>
      edges == ForLoop([i \in 0..order |->
                 LET base == (i+1) * P22
                 IN << <<i+1, "mpts", nv+i*ne+0>>,
                       <<nPts1D*(i+1), "mpts", nv+(order-i)*ne+3>>,
                       <<nPts1D*(i+2)-1, "mpts", nv+i*ne+1>>,
                       <<nPts1D*(order+2)+i+1, "mpts", nv+(order-i)*ne+2>>,
                       <<top + i+1, "mpts", nv+i*ne+4>>,
                       <<top + nPts1D*(i+1), "mpts", nv+(order-i)*ne+7>>,
                       <<top + nPts1D*(i+2)-1, "mpts", nv+i*ne+5>>,
                       <<top + nPts1D*(order+2)+i+1, "mpts", nv+(order-i)*ne+6>>,
                       <<base, "mpts", nv+i*ne+8>>,
                       <<base+(order+2), "mpts", nv+i*ne+9>>,
                       <<base+base2, "mpts", nv+i*ne+11>>,
                       <<base+base2+order+2, "mpts", nv+i*ne+10>> >>],
                 order + 1)
      faces == ForLoop([i \in 0..order |-> ForLoop([j \in 0..order |->
                 LET ind1 == i + j*(order+1)
                     ind2 == order - i + (order+1)*j
                 IN << <<nPts1D*(j+1)+i+1, "fpts", ind1>>,
                       <<P22*(order+2)+(j+1)*nPts1D+i+1, "fpts", P12+ind2>>,
                       <<P22*(j+1)+nPts1D*(i+1), "fpts", 2*P12+ind1>>,
                       <<P22*(j+1)+nPts1D*(i+1)+order+2, "fpts", 3*P12+ind2>>,
                       <<P22*(j+1)+i+1, "fpts", 4*P12+ind2>>,
                       <<P22*(j+2)+i+1-nPts1D, "fpts", 5*P12+ind1>> >>],
                 order + 1)], order + 1)
      spts == ForLoop([k \in 0..order |-> ForLoop([j \in 0..order |->
                ForLoop([i \in 0..order |-> <<sptsWrite3D(order, i, j, k)>>],
                        order + 1)], order + 1)], order + 1)
  IN  corners \o edges \o faces \o spts

\* values of the element at its mesh points and flux points (rows of U_mpts,
\* U_fpts), told apart from every solution-point value by their density
RowOf(e, array, src) ==
  IF array = "spts" THEN e.U_spts[src]
  ELSE LET m == IF array = "mpts" THEN 50 + src ELSE 200 + src
       IN  [k \in 1..(e.nDims + 2) |->
              IF k = 1 THEN QInt(m) ELSE QInt(src + k)]

\* the Navier-Stokes loop at the end of getPrimitivesPlot: one row of
\* conservative variables overwritten with rho, u, v, (w,) p
plotPrimitives(row, nD, gamma) ==
  LET u == QDiv(row[2], row[1])
      v == QDiv(row[3], row[1])
      w == IF nD = 3 THEN QDiv(row[4], row[1]) ELSE QZero
      vSq == QAdd(QAdd(QMul(u, u), QMul(v, v)), QMul(w, w))
  IN  [k \in 1..(nD + 2) |->
         IF k = 1 THEN row[1]
         ELSE IF k = 2 THEN u
         ELSE IF k = 3 THEN v
         ELSE IF k = 4 /\ nD = 3 THEN w
         ELSE QMul(QSub(gamma, QOne),
                   QSub(row[nD + 2], QMul(QMul(Q(1, 2), row[1]), vSq)))]

\* ele::getPrimitivesPlot: the matrix V over the (order+3)^nDims plot points
getPrimitivesPlot(e) ==
  LET writes == IF e.eType = QUAD THEN PlotWritesQuad(e.order, e.nFpts)
                ELSE PlotWritesHex(e.order)
      last(id) == CHOOSE n \in 1..Len(writes) :
                    /\ writes[n][1] = id
                    /\ \A m \in (n+1)..Len(writes) : writes[m][1] # id
  IN  [id \in 0..(nPlotPts(e.nDims, e.order) - 1) |->
         IF \E n \in 1..Len(writes) : writes[n][1] = id
         THEN plotPrimitives(RowOf(e, writes[last(id)][2], writes[last(id)][3]),
                             e.nDims, e.gamma)
         ELSE [k \in 1..(e.nDims + 2) |-> QZero]]

\* the piece of the restart file written from V: the number of plot cells and
\* one line of values per field, Velocity with three components per point
writeRestartPiece(V, nD, order) ==
  LET N == nPlotPts(nD, order)
  IN  [nCells   |-> (order + 2) ^ nD,
       Density  |-> [n \in 1..N |-> V[n - 1][1]],
       Velocity |-> [t \in 1..(3 * N) |->
                       LET c == (t - 1) % 3
                       IN  IF c < nD THEN V[(t - 1) \div 3][2 + c] ELSE QZero],
       Pressure |-> [n \in 1..N |-> V[n - 1][nD + 2]]]

\* `ss >> tmp` and `ss >> X(s, c)` as entries of the list of extractions
tmp == <<-1, -1>>

\* the extractions of restart for a scalar field (Density, Pressure)
ScalarReads(nD, order) ==
  IF nD = 2
  THEN Rep(tmp, 2 + (order+1))
       \o ForLoop([i \in 0..order |->
            <<tmp>> \o [jj \in 1..(order+1) |-> <<(jj-1)+i*(order+1), 0>>] \o <<tmp>>],
            order + 1)
  ELSE Rep(tmp, (order+3)*(order+3))
       \o ForLoop([k \in 0..order |->
            Rep(tmp, order + 3)
            \o ForLoop([j \in 0..order |->
                 <<tmp>>
                 \o [ii \in 1..(order+1) |-> <<(ii-1)+(order+1)*(j+(order+1)*k), 0>>]
                 \o <<tmp>>], order + 1)
            \o Rep(tmp, order + 3)], order + 1)

\* the extractions of restart for Velocity
VelocityReads(nD, order) ==
  IF nD = 2
  THEN Rep(tmp, 3 * (2 + (order+1)))
       \o ForLoop([i \in 0..order |->
            Rep(tmp, 3)
            \o ForLoop([j \in 0..order |->
                 << <<j+i*(order+1), 0>>, <<j+i*(order+1), 1>>, tmp >>], order + 1)
            \o Rep(tmp, 3)], order + 1)
  ELSE Rep(tmp, 3 * (order+3)*(order+3))
       \o ForLoop([k \in 0..order |->
            Rep(tmp, 3 * (order + 3))
            \o ForLoop([j \in 0..order |->
                 Rep(tmp, 3)
                 \o ForLoop([i \in 0..order |->
                      << <<i+(order+1)*(j+(order+1)*k), 0>>,
                         <<i+(order+1)*(j+(order+1)*k), 1>>,
                         <<i+(order+1)*(j+(order+1)*k), 2>> >>], order + 1)
                 \o Rep(tmp, 3)], order + 1)
            \o Rep(tmp, 3 * (order + 3))], order + 1)

\* the value an extraction list stores in entry (s, c): the n-th extraction
\* takes the n-th value of the line; past the end of the line nothing is read
Extracted(reads, line, s, c) ==
  LET n == CHOOSE m \in 1..Len(reads) : reads[m] = <<s, c>>
  IN  IF n <= Len(line) THEN line[n] ELSE Undef

\* `order = sqrt(nCells) - 2` / `order = cbrt(nCells) - 2`
orderOfCells(nD, nCells) ==
  (CHOOSE r \in 0..nCells : r ^ nD <= nCells /\ (r + 1) ^ nD > nCells) - 2

\* "Convert primitive variables to conservative variables"
restartConservative(rho, vel, P, nD, gamma) ==
  LET vSq == IF nD = 3
             THEN QAdd(QAdd(QMul(vel[1], vel[1]), QMul(vel[2], vel[2])), QMul(vel[3], vel[3]))
             ELSE QAdd(QMul(vel[1], vel[1]), QMul(vel[2], vel[2]))
  IN  [k \in 1..(nD + 2) |->
         IF k = 1 THEN rho
         ELSE IF k = nD + 2
              THEN QAdd(QDiv(P, QSub(gamma, QOne)), QMul(QMul(Q(1, 2), rho), vSq))
              ELSE QMul(rho, vel[k - 1])]

\* ele::restart reading a Navier-Stokes piece written at the order of the run
restart(e, file) ==
  LET nD == e.nDims
      order == orderOfCells(nD, file.nCells)
      nSpts == (order + 1) ^ nD
      sc == ScalarReads(nD, order)
      ve == VelocityReads(nD, order)
  IN  [order  |-> order,
       nSpts  |-> nSpts,
       U_spts |-> [s \in 0..(nSpts - 1) |->
                     restartConservative(
                       Extracted(sc, file.Density, s, 0),
                       [c \in 1..nD |-> Extracted(ve, file.Velocity, s, c - 1)],
                       Extracted(sc, file.Pressure, s, 0), nD, e.gamma)]]

\* solution-point states of the element to be written: densities positive,
\* every solution point different from every other
RestartStates(nD, nSpts, shift, scale) ==
  [s \in 0..(nSpts - 1) |->
     [k \in 1..(nD + 2) |->
        IF k = 1 THEN QInt(1 + ((s + shift) % 4))
        ELSE IF k = 2 THEN QInt(s - shift)
        ELSE IF k = nD + 2 THEN QInt(s * s + scale + 3)
        ELSE QInt(scale * s + k)]]

InitRestart ==
  /\ \E eType \in {QUAD, HEX}, order \in 0..MaxPlotOrder, g \in {Q(7, 5), QInt(2)},
        shift \in {0, 3}, scale \in {1, 3} :
       LET nD == nDimsOf(eType)
       IN  kin = [eType |-> eType, order |-> order, nDims |-> nD, gamma |-> g,
                  nSpts |-> (order + 1) ^ nD,
                  nFpts |-> 2 * nD * ((order + 1) ^ (nD - 1)),
                  U_spts |-> RestartStates(nD, (order + 1) ^ nD, shift, scale)]
  /\ kpc = "getPrimitivesPlot"
  /\ kloc = NoElement
  /\ SolverIdle /\ SqueezeIdle /\ ParIdle /\ GeomIdle

\* the plot values of the element are computed
ele_getPrimitivesPlot ==
  /\ kpc = "getPrimitivesPlot"
  /\ kloc' = [V |-> getPrimitivesPlot(kin)]
  /\ kpc' = "write"
  /\ UNCHANGED <<kin, solverVars, squeezeVars, parVars, geomVars>>

\* the piece of the element is written to the restart file
writeRestartFile ==
  /\ kpc = "write"
  /\ kloc' = [file |-> writeRestartPiece(kloc.V, kin.nDims, kin.order)]
  /\ kpc' = "restart"
  /\ UNCHANGED <<kin, solverVars, squeezeVars, parVars, geomVars>>

\* a new run of the same order reads the piece
ele_restart ==
  /\ kpc = "restart"
  /\ kloc' = [file |-> kloc.file, ele |-> restart(kin, kloc.file)]
  /\ kpc' = "restart:done"
  /\ UNCHANGED <<kin, solverVars, squeezeVars, parVars, geomVars>>

NextRestart == ele_getPrimitivesPlot \/ writeRestartFile \/ ele_restart

SpecRestart == InitRestart /\ [][NextRestart]_vars

\* position (from 0) in a scalar line of the value restart stores in U_spts(s,0)
ReadPosition(s) ==
  (CHOOSE m \in 1..Len(ScalarReads(kin.nDims, kin.order)) :
     ScalarReads(kin.nDims, kin.order)[m] = <<s, 0>>) - 1

\* plot index at which getPrimitivesPlot places U_spts(s,.)
PlotIndex(s) ==
  LET writes == IF kin.eType = QUAD THEN PlotWritesQuad(kin.order, kin.nFpts)
                ELSE PlotWritesHex(kin.order)
  IN  (CHOOSE w \in {writes[n] : n \in 1..Len(writes)} :
         w[2] = "spts" /\ w[3] = s)[1]

\* C20: after a restart file written from getPrimitivesPlot is read by restart
\* at the same order, for QUAD and HEX elements of every order, restart reads
\* for each solution point s the plot entry that getPrimitivesPlot filled from
\* U_spts(s,.), and the conservative -> primitive -> conservative conversion
\* gives back the original U_spts in every field.
C20_RestartRoundTrip ==
  kpc = "restart:done" =>
    /\ kloc.ele.order = kin.order
    /\ \A s \in 0..(kin.nSpts - 1) :
         /\ ReadPosition(s) = PlotIndex(s)
         /\ kloc.ele.U_spts[s] = kin.U_spts[s]

C20_Witness ==
  /\ kpc = "restart:done" /\ kin.eType = HEX /\ kin.order = 1
  /\ kloc.ele.U_spts = kin.U_spts


\* ---------------------------------------------------------------------------
\* solver::readRestartFile: the header scan, the overset blanking and the
\* per-element reads
RestartEles == {1, 2}
IblankValues == {NORMAL, HOLE, FRINGE}

\* `Geo->iblankCell[ic] = tmpIblank[ic]` for ic = 0..nEles-1: the accesses to
\* tmpIblank as <<size, index>>
blankingAccesses(nEles, tmpSize) == {<<tmpSize, ic>> : ic \in 0..(nEles - 1)}

\* `tmpIblank[eles[ic]->ID]` of the overset-method-2 read loop
readLoopAccesses(nEles, tmpSize) == {<<tmpSize, id>> : id \in 0..(nEles - 1)}

InitReadRestart ==
  /\ \E mt \in {OVERSET_MESH, READ_MESH}, om \in {0, 2}, n \in RestartEles,
        hasTime \in BOOLEAN, hasIB \in BOOLEAN, hasUG \in BOOLEAN :
       \E ib \in [0..(n - 1) -> IblankValues] :
         kin = [meshType |-> mt, oversetMethod |-> om, nEles |-> n,
                hasTime |-> hasTime, hasIBTag |-> hasIB, hasUGTag |-> hasUG,
                fileIblank |-> ib]
  /\ kpc = "readRestartFile"
  /\ kloc = NoElement
  /\ SolverIdle /\ SqueezeIdle /\ ParIdle /\ GeomIdle

\* the header scan: TIME and IBLANK_CELL comments up to <UnstructuredGrid>,
\* the two warnings and the fatal error
readRestartFile_header ==
  /\ kpc = "readRestartFile"
  /\ LET foundIBTag == kin.meshType = OVERSET_MESH /\ kin.hasIBTag
         warnings == (IF ~kin.hasTime THEN {"time"} ELSE {})
                     \cup (IF kin.meshType = OVERSET_MESH /\ ~foundIBTag
                           THEN {"iblank"} ELSE {})
     IN  /\ kloc' = [foundTime |-> kin.hasTime, foundIBTag |-> foundIBTag,
                     tmpIblankSize |-> IF foundIBTag THEN kin.nEles ELSE 0,
                     warnings |-> IF kin.hasUGTag THEN warnings
                                  ELSE warnings \ {"iblank"},
                     accesses |-> {}, restarted |-> {}]
         /\ kpc' = IF kin.hasUGTag THEN "moveMesh" ELSE "FatalError"
  /\ UNCHANGED <<kin, solverVars, squeezeVars, parVars, geomVars>>

\* moveMesh(0) and, for an overset mesh, the copy of tmpIblank into
\* Geo->iblankCell; a read past the end of tmpIblank gives any iblank value
readRestartFile_blank ==
  /\ kpc = "moveMesh"
  /\ IF kin.meshType = OVERSET_MESH
     THEN \E g \in [0..(kin.nEles - 1) -> IblankValues] :
            kloc' = [kloc EXCEPT
              !.accesses = blankingAccesses(kin.nEles, kloc.tmpIblankSize),
              !.restarted = [ic \in 0..(kin.nEles - 1) |->
                               IF ic < kloc.tmpIblankSize THEN kin.fileIblank[ic]
                               ELSE g[ic]]]
     ELSE kloc' = [kloc EXCEPT !.restarted = [ic \in 0..(kin.nEles - 1) |-> NORMAL]]
  /\ kpc' = "restart"
  /\ UNCHANGED <<kin, solverVars, squeezeVars, parVars, geomVars>>

\* the loop over eles calling ele::restart (only NORMAL cells with overset
\* method 2), and the close of the file
readRestartFile_eles ==
  /\ kpc = "restart"
  /\ kloc' = [kloc EXCEPT !.accesses =
                IF kin.meshType = OVERSET_MESH /\ kin.oversetMethod = 2
                THEN @ \cup readLoopAccesses(kin.nEles, kloc.tmpIblankSize)
                ELSE @]
  /\ kpc' = "readRestartFile:done"
  /\ UNCHANGED <<kin, solverVars, squeezeVars, parVars, geomVars>>

NextReadRestart == readRestartFile_header \/ readRestartFile_blank \/ readRestartFile_eles

SpecReadRestart == InitReadRestart /\ [][NextReadRestart]_vars

\* C21: when an overset restart file has no iblank data, readRestartFile warns
\* and continues, and every later access to tmpIblank during that restart is
\* to an existing entry of a vector of size nEles.
C21_IblankAccessInBounds ==
  kpc = "readRestartFile:done" /\ kin.meshType = OVERSET_MESH /\ ~kin.hasIBTag =>
    /\ "iblank" \in kloc.warnings
    /\ \A a \in kloc.accesses : a[1] = kin.nEles /\ a[2] < a[1]


\* ---------------------------------------------------------------------------
\* Global CFL stepping (dtType = 1) in solver::update
\* the elements a time step of the running update has advanced so far
SteppedSoFar ==
  IF \E i \in 1..Len(updLog) : updLog[i][1] \in {"timeStepA", "timeStepB"}
  THEN Advanced ELSE {}

\* C22: with global CFL stepping (dtType = 1), calcDt runs once per update,
\* before the first stage, and sets params->dt to the minimum of ele::calcDt()
\* over all elements; every element advanced by timeStepA / timeStepB in that
\* update uses exactly that value, which is not larger than the element's own
\* CFL-limited dt.
C22_GlobalCflStep ==
  params.dtType = 1 /\ Len(updLog) > 0 =>
    /\ updLog[1][1] = "calcDt"
    /\ Cardinality(CallsOf("calcDt")) = 1
    /\ params.dt = QMinOver([e \in Eles |-> cflDt[e]], Eles)
    /\ \A e \in Eles : QLe(params.dt, cflDt[e])
    /\ \A e \in SteppedSoFar : dt_ele[e] = params.dt

C22_Witness ==
  /\ params.dtType = 1 /\ UpdateReturned /\ params.nRKSteps = 4
  /\ \E e \in Eles : QLt(params.dt, cflDt[e]) /\ dt_ele[e] = params.dt


\* ---------------------------------------------------------------------------
\* ele::calcTransforms: determinant and adjugate of the Jacobian, 2-D and 3-D
JacEntries == {QInt(-1), QZero, QInt(2)}
JacRows3 == {<<a, b, c>> : a \in JacEntries, b \in JacEntries, c \in JacEntries}
JacLastRows3 == {<<QZero, QZero, QOne>>, <<QOne, QInt(-1), QInt(2)>>,
                 <<QInt(2), QOne, QZero>>, <<Q(1, 2), QZero, QInt(-3)>>}
JacEntries2 == {QInt(-1), QZero, Q(1, 2), QInt(2)}
Jacobians2 == {<< <<a, b>>, <<c, d>> >> : a \in JacEntries2, b \in JacEntries2,
                                         c \in JacEntries2, d \in JacEntries2}

\* `detJac = xr*(ys*zt - yt*zs) - xs*(yr*zt - yt*zr) + xt*(yr*zs - ys*zr)`
Det3(J) ==
  LET xr == J[1][1]  xs == J[1][2]  xt == J[1][3]
      yr == J[2][1]  ys == J[2][2]  yt == J[2][3]
      zr == J[3][1]  zs == J[3][2]  zt == J[3][3]
  IN  QAdd(QSub(QMul(xr, QSub(QMul(ys, zt), QMul(yt, zs))),
                QMul(xs, QSub(QMul(yr, zt), QMul(yt, zr)))),
           QMul(xt, QSub(QMul(yr, zs), QMul(ys, zr))))

\* the 3-D JGinv gone wrong: the matrix of cofactors, not transposed
Adjoint3_NotTransposed(J) ==
  LET xr == J[1][1]  xs == J[1][2]  xt == J[1][3]
      yr == J[2][1]  ys == J[2][2]  yt == J[2][3]
      zr == J[3][1]  zs == J[3][2]  zt == J[3][3]
      m(a, b, c, d) == QSub(QMul(a, b), QMul(c, d))
  IN  << <<m(ys, zt, yt, zs), m(yt, zr, yr, zt), m(yr, zs, ys, zr)>>,
         <<m(xt, zs, xs, zt), m(xr, zt, xt, zr), m(xs, zr, xr, zs)>>,
         <<m(xs, yt, xt, ys), m(xt, yr, xr, yt), m(xr, ys, xs, yr)>> >>

\* the nine assignments JGinv(0,0) = ys*zt - yt*zs; ... JGinv(2,2) = xr*ys - xs*yr
Adjoint3(J) ==
  LET xr == J[1][1]  xs == J[1][2]  xt == J[1][3]
      yr == J[2][1]  ys == J[2][2]  yt == J[2][3]
      zr == J[3][1]  zs == J[3][2]  zt == J[3][3]
      m(a, b, c, d) == QSub(QMul(a, b), QMul(c, d))
  IN  << <<m(ys, zt, yt, zs), m(xt, zs, xs, zt), m(xs, yt, xt, ys)>>,
         <<m(yt, zr, yr, zt), m(xr, zt, xt, zr), m(xt, yr, xr, yt)>>,
         <<m(yr, zs, ys, zr), m(xs, zr, xr, zs), m(xr, ys, xs, yr)>> >>

\* detJac and JGinv as calcTransforms stores them for the Jacobian J
transformOf(J) ==
  IF Len(J) = 2 THEN [detJac |-> Det2(J), JGinv |-> Adjoint2(J)]
  ELSE [detJac |-> Det3(J), JGinv |-> Adjoint3(J)]

InitJacobian ==
  /\ \/ \E J \in Jacobians2 : kin = [nDims |-> 2, Jac |-> J]
     \/ \E r1 \in JacRows3, r2 \in JacRows3, r3 \in JacLastRows3 :
          kin = [nDims |-> 3, Jac |-> <<r1, r2, r3>>]
  /\ kpc = "calcTransforms:spts"
  /\ kloc = NoElement
  /\ SolverIdle /\ SqueezeIdle /\ ParIdle /\ GeomIdle

\* the body of the solution-point loop for a point whose Jacobian is kin.Jac
calcTransforms_spt ==
  /\ kpc = "calcTransforms:spts"
  /\ LET t == transformOf(kin.Jac)
     IN  /\ kloc' = [Jac |-> kin.Jac, detJac |-> t.detJac, JGinv |-> t.JGinv]
         /\ kpc' = IF QLt(t.detJac, QZero) THEN "FatalError" ELSE "calcTransforms:fpts"
  /\ UNCHANGED <<kin, solverVars, squeezeVars, parVars, geomVars>>

\* the body of the flux-point loop for a point whose Jacobian is kin.Jac or
\* kin.Jac with its first two rows exchanged
calcTransforms_fpt ==
  /\ kpc = "calcTransforms:fpts"
  /\ \E J \in {kin.Jac, [kin.Jac EXCEPT ![1] = kin.Jac[2], ![2] = kin.Jac[1]]} :
       LET t == transformOf(J)
       IN  kloc' = [Jac |-> J, detJac |-> t.detJac, JGinv |-> t.JGinv]
  /\ kpc' = "calcTransforms:done"
  /\ UNCHANGED <<kin, solverVars, squeezeVars, parVars, geomVars>>

NextJacobian == calcTransforms_spt \/ calcTransforms_fpt

SpecJacobian == InitJacobian /\ [][NextJacobian]_vars

RECURSIVE DotRowCol(_, _, _, _, _)
DotRowCol(A, B, i, j, n) ==
  IF n = 0 THEN QZero
  ELSE QAdd(QMul(A[i][n], B[n][j]), DotRowCol(A, B, i, j, n - 1))

MatMul(A, B) == [i \in 1..Len(A) |-> [j \in 1..Len(A) |-> DotRowCol(A, B, i, j, Len(A))]]

ScaledIdentity(d, n) == [i \in 1..n |-> [j \in 1..n |-> IF i = j THEN d ELSE QZero]]

\* C23: for every 2x2 and every 3x3 Jacobian of calcTransforms, at solution
\* points and at flux points, the stored JGinv and detJac satisfy
\* JGinv*J = J*JGinv = detJac*I.
C23_AdjugateAndDeterminant ==
  kpc \in {"calcTransforms:fpts", "calcTransforms:done", "FatalError"} =>
    /\ MatMul(kloc.JGinv, kloc.Jac) = ScaledIdentity(kloc.detJac, kin.nDims)
    /\ MatMul(kloc.Jac, kloc.JGinv) = ScaledIdentity(kloc.detJac, kin.nDims)

C23_Witness ==
  /\ kpc = "calcTransforms:done" /\ kin.nDims = 3
  /\ kloc.detJac # QZero /\ kloc.JGinv[1][2] # kloc.JGinv[2][1]


\* ---------------------------------------------------------------------------
\* The common interface solution U_c in a viscous residual stage
\* the face kernels that form U_c from a stage's left and right traces
FormsUc == {"calcViscousFlux_faces", "calcViscousFlux_mpi", "calcViscousFlux_overset"}

MaxFluxStages == 2

\* physical fluxes of the scalar advection-diffusion equation
advectV == <<QOne, QInt(2)>>
diffD == Q(1, 2)
inviscidFlux(U) == [i \in 1..2 |-> QMul(advectV[i], U)]
viscousFluxAD(dU) == [i \in 1..2 |-> QNeg(QMul(diffD, dU[i]))]

\* JGinv * tempF
toReference(JGinv, tempF) ==
  [i \in 1..2 |-> QAdd(QMul(JGinv[i][1], tempF[1]), QMul(JGinv[i][2], tempF[2]))]

\* the inviscid kernel gone wrong: it adds to F_spts
inviscidFluxSpts_Accumulates(F, U, motion, JGinv) ==
  LET tempF == inviscidFlux(U)
  IN  IF motion # 0 THEN [i \in 1..2 |-> QAdd(F[i], tempF[i])]
      ELSE [i \in 1..2 |-> QAdd(F[i], toReference(JGinv, tempF)[i])]

\* ele::calcInviscidFlux_spts at one solution point: the new F_spts
inviscidFluxSpts(F, U, motion, JGinv) ==
  LET tempF == inviscidFlux(U)
  IN  IF motion # 0 THEN [i \in 1..2 |-> tempF[i]]
      ELSE [i \in 1..2 |-> QAdd(QZero, toReference(JGinv, tempF)[i])]

\* ele::calcViscousFlux_spts at one solution point: the new F_spts
viscousFluxSpts(F, dU, motion, JGinv) ==
  LET tempF == viscousFluxAD(dU)
  IN  IF motion # 0 THEN [i \in 1..2 |-> QAdd(F[i], tempF[i])]
      ELSE [i \in 1..2 |-> QAdd(F[i], toReference(JGinv, tempF)[i])]

\* extrapolateNormalFlux gone wrong: always the reference normal
extrapolateFnArgs_AlwaysReference(motion) == <<"F_spts", "tNorm_fpts", "disFn_fpts">>

\* solver::extrapolateNormalFlux: the arguments given to applyExtrapolateFn
extrapolateFnArgs(motion) ==
  IF motion # 0 THEN <<"F_spts", "norm_fpts", "disFn_fpts", "dA_fpts">>
  ELSE <<"F_spts", "tNorm_fpts", "disFn_fpts">>

\* solver::calcFluxDivergence: the kernels it calls
fluxDivergenceCalls(motion) ==
  IF motion # 0 THEN <<"calcGradF_spts", "transformGradF_spts">>
  ELSE <<"calcDivF_spts">>

FluxStates == {QOne, QInt(2), QInt(-3)}
FluxGradients == {<<QZero, QZero>>, <<QOne, QInt(-1)>>, <<QInt(2), QInt(3)>>}
FluxJGinvs == {<< <<QInt(2), QZero>>, <<QZero, QOne>> >>,
               << <<QOne, QInt(-1)>>, <<QOne, QInt(2)>> >>}

InitFlux ==
  /\ \E motion \in {0, 1}, viscous \in BOOLEAN, J \in FluxJGinvs :
       kin = [motion |-> motion, viscous |-> viscous, JGinv |-> J]
  /\ \E U \in FluxStates, dU \in FluxGradients :
       kloc = [stage |-> 1, U |-> U, dU |-> dU, F_spts |-> <<QZero, QZero>>,
               fnArgs |-> <<>>, divCalls |-> <<>>]
  /\ kpc = "calcInviscidFlux_spts"
  /\ SolverIdle /\ SqueezeIdle /\ ParIdle /\ GeomIdle

flux_calcInviscidFlux_spts ==
  /\ kpc = "calcInviscidFlux_spts"
  /\ kloc' = [kloc EXCEPT !.F_spts = inviscidFluxSpts(@, kloc.U, kin.motion, kin.JGinv),
                          !.fnArgs = <<>>, !.divCalls = <<>>]
  /\ kpc' = IF kin.viscous THEN "calcViscousFlux_spts" ELSE "extrapolateNormalFlux"
  /\ UNCHANGED <<kin, solverVars, squeezeVars, parVars, geomVars>>

flux_calcViscousFlux_spts ==
  /\ kpc = "calcViscousFlux_spts"
  /\ kloc' = [kloc EXCEPT !.F_spts = viscousFluxSpts(@, kloc.dU, kin.motion, kin.JGinv)]
  /\ kpc' = "extrapolateNormalFlux"
  /\ UNCHANGED <<kin, solverVars, squeezeVars, parVars, geomVars>>

flux_extrapolateNormalFlux ==
  /\ kpc = "extrapolateNormalFlux"
  /\ kloc' = [kloc EXCEPT !.fnArgs = extrapolateFnArgs(kin.motion)]
  /\ kpc' = "calcFluxDivergence"
  /\ UNCHANGED <<kin, solverVars, squeezeVars, parVars, geomVars>>

flux_calcFluxDivergence ==
  /\ kpc = "calcFluxDivergence"
  /\ kloc' = [kloc EXCEPT !.divCalls = fluxDivergenceCalls(kin.motion)]
  /\ kpc' = "correctDivFlux"
  /\ UNCHANGED <<kin, solverVars, squeezeVars, parVars, geomVars>>

\* the stage ends, the time step changes the solution, the next stage begins
flux_nextStage ==
  /\ kpc = "correctDivFlux"
  /\ kloc.stage < MaxFluxStages
  /\ \E U \in FluxStates, dU \in FluxGradients :
       kloc' = [kloc EXCEPT !.stage = @ + 1, !.U = U, !.dU = dU]
  /\ kpc' = "calcInviscidFlux_spts"
  /\ UNCHANGED <<kin, solverVars, squeezeVars, parVars, geomVars>>

NextFlux ==
  \/ flux_calcInviscidFlux_spts
  \/ flux_calcViscousFlux_spts
  \/ flux_extrapolateNormalFlux
  \/ flux_calcFluxDivergence
  \/ flux_nextStage

SpecFlux == InitFlux /\ [][NextFlux]_vars

\* the flux of the current stage, in the form the motion option asks for
InStageForm(tempF) == IF kin.motion # 0 THEN tempF ELSE toReference(kin.JGinv, tempF)

AfterViscousFlux == kpc \in {"extrapolateNormalFlux", "calcFluxDivergence", "correctDivFlux"}

\* C24: in every residual stage of a viscous run, F_spts after
\* calcViscousFlux_spts is the inviscid flux of the current stage plus the
\* viscous flux of the current stage (each JGinv-transformed on a static
\* mesh); nothing of an earlier stage remains in it.
C24_FluxOfCurrentStage ==
  kin.viscous /\ AfterViscousFlux =>
    \A i \in 1..2 :
      kloc.F_spts[i] = QAdd(InStageForm(inviscidFlux(kloc.U))[i],
                            InStageForm(viscousFluxAD(kloc.dU))[i])

C24_Witness ==
  /\ kin.viscous /\ kloc.stage = 2 /\ kpc = "extrapolateNormalFlux"
  /\ kloc.F_spts # <<QZero, QZero>> /\ kloc.dU # <<QZero, QZero>>

\* C28: within every residual stage the motion-dependent choices agree: with
\* motion, F_spts is the physical flux, the normal flux is extrapolated with
\* the physical normal and dA, and the divergence is the chain-rule form
\* (calcGradF_spts, transformGradF_spts); without motion, F_spts is the
\* JGinv-transformed flux, the reference normal is used, and the divergence
\* is the conservative form (calcDivF_spts).
C28_MotionChoicesConsistent ==
  kpc = "correctDivFlux" =>
    LET physical == [i \in 1..2 |->
                       QAdd(inviscidFlux(kloc.U)[i],
                            IF kin.viscous THEN viscousFluxAD(kloc.dU)[i] ELSE QZero)]
    IN  IF kin.motion # 0
        THEN /\ kloc.F_spts = physical
             /\ kloc.fnArgs = <<"F_spts", "norm_fpts", "disFn_fpts", "dA_fpts">>
             /\ kloc.divCalls = <<"calcGradF_spts", "transformGradF_spts">>
        ELSE /\ kloc.F_spts = toReference(kin.JGinv, physical)
             /\ kloc.fnArgs = <<"F_spts", "tNorm_fpts", "disFn_fpts">>
             /\ kloc.divCalls = <<"calcDivF_spts">>

C28_Witness ==
  /\ kpc = "correctDivFlux" /\ kin.motion # 0 /\ kin.viscous /\ kloc.stage = 2
  /\ kloc.divCalls = <<"calcGradF_spts", "transformGradF_spts">>


\* ---------------------------------------------------------------------------
\* C26: solver::checkDensity returns true if and only if ele::checkDensity
\* returned true for at least one element, under every interleaving of the
\* iterations of its parallel loop.
C26_ReturnsTrueIffAnySqueezed ==
  (parLoop = "checkDensity" /\ \A i \in Eles : iter[i].pc = "done") =>
    (squeezed = TRUE <=> \E i \in Eles : iter[i].check = TRUE)



(***************************************************************************)
(* ele::checkDensity against the squeezing on density of ele::checkEntropy*)
(* on an element with several flux points, so that more than one point of *)
(* the same array can hold a negative density.                            *)
(***************************************************************************)
\* flux points of the element of this comparison
NFptsScan == 2

\* the element after solver::extrapolateU, before calcAvgSolution
InitDensityScan ==
  /\ el \in [U_spts : [1..NSpts -> PointStates], U_fpts : [1..NFptsScan -> PointStates],
             U_mpts : {<<>>}, Uavg : {<<>>}]
  /\ el0 = NoElement
  /\ sqpc = "fpts"
  /\ sqRet = FALSE
  /\ SolverIdle /\ ParIdle /\ GeomIdle /\ KernelIdle

NextDensityScan ==
  \/ sq_calcAvgSolution
  \/ checkDensity_ele

SpecDensityScan == InitDensityScan /\ [][NextDensityScan]_vars

\* the densities of the solution and flux points of an element
DensitiesOf(E) ==
  [a \in {"U_spts", "U_fpts"} |-> [pt \in 1..Len(E[a]) |-> E[a][pt][1]]]

\* C27: for every element state with Uavg[0] > tol, ele::checkDensity leaves
\* the densities of U_spts and U_fpts that the squeezing on density of
\* ele::checkEntropy would leave, and afterwards no solution point and no
\* flux point has a density below tol.
C27_SameSqueezeAsCheckEntropy ==
  (sqpc = "checkDensity:done" /\ QLt(tol, el0.Uavg[1])) =>
    /\ DensitiesOf(el) = DensitiesOf(densityPhase(el0, FALSE))
    /\ \A a \in {"U_spts", "U_fpts"} : \A pt \in 1..Len(el[a]) : QLe(tol, el[a][pt][1])



(***************************************************************************)
(* The volume clipTet has to return: the part of the tetrahedron on the    *)
(* non-cut side of the plane, from the signed distances of its vertices.   *)
(***************************************************************************)
\* norm.(v - xc), the (scaled) signed distance of v from the clipping plane
PlaneSide(v, clipFace, norm) == V3Dot(V3Sub(v, Centroid(clipFace)), norm)

\* the point of the edge a-b on the clipping plane, a and b on opposite sides
EdgeCut(a, b, clipFace, norm) ==
  LET da == PlaneSide(a, clipFace, norm)
      db == PlaneSide(b, clipFace, norm)
      s == QDiv(da, QSub(da, db))
  IN  [i \in 1..3 |-> QAdd(a[i], QMul(s, QSub(b[i], a[i])))]

\* volume of the part of tet with norm.(v - xc) <= 0
KeptVolume(tet, clipFace, norm) ==
  LET dead == {i \in 1..4 : QLt(QZero, PlaneSide(tet[i], clipFace, norm))}
      kept == (1..4) \ dead
      cut(i, j) == EdgeCut(tet[i], tet[j], clipFace, norm)
      corner(k, others) ==
        LET o == CHOOSE s \in [1..3 -> others] : \A i, j \in 1..3 : i < j => s[i] < s[j]
        IN  Volume(<<tet[k], cut(k, o[1]), cut(k, o[2]), cut(k, o[3])>>)
  IN  CASE Cardinality(dead) = 0 -> Volume(tet)
        [] Cardinality(dead) = 1 ->
             LET k == CHOOSE i \in dead : TRUE
             IN  QSub(Volume(tet), corner(k, kept))
        [] Cardinality(dead) = 2 ->
             LET a == CHOOSE i \in kept : \A j \in kept : i <= j
                 b == CHOOSE i \in kept : i # a
                 c == CHOOSE i \in dead : \A j \in dead : i <= j
                 d == CHOOSE i \in dead : i # c
             IN  QAdd(Volume(<<tet[a], cut(a, c), cut(a, d), tet[b]>>),
                      QAdd(Volume(<<cut(a, c), cut(a, d), cut(b, d), tet[b]>>),
                           Volume(<<cut(a, c), cut(b, d), cut(b, c), tet[b]>>)))
        [] Cardinality(dead) = 3 ->
             LET k == CHOOSE i \in kept : TRUE
             IN  corner(k, dead)
        [] Cardinality(dead) = 4 -> QZero

\* no vertex of the tetrahedron lies exactly on the clipping plane
NoVertexOnPlane ==
  \A i \in 1..4 : PlaneSide(kin.tet[i], kin.clipFace, kin.norm) # QZero

\* C29: for every tetrahedron and clipping plane with no vertex exactly on
\* the plane and 1, 2 or 3 vertices on the cut side, the unsigned volumes of
\* the tetrahedra returned by clipTet sum to the volume of the part of the
\* input tetrahedron on the non-cut side, and every vertex v of every returned
\* tetrahedron satisfies norm.(v - xc) <= 0.
C29_ClippedVolume ==
  (Clipped /\ NoVertexOnPlane /\ NDead \in {1, 2, 3}) =>
    /\ TotalVolume(kloc.outTets, Len(kloc.outTets))
         = KeptVolume(kin.tet, kin.clipFace, kin.norm)
    /\ \A t \in 1..Len(kloc.outTets) : \A v \in 1..4 :
         QLe(PlaneSide(kloc.outTets[t][v], kin.clipFace, kin.norm), QZero)



\* ---------------------------------------------------------------------------
\* Blanked elements under overset field interpolation
\* the step just taken is solver::timeStepA or solver::timeStepB
TimeStepTaken ==
  /\ Len(updLog') = Len(updLog) + 1
  /\ updLog'[Len(updLog')][1] \in {"timeStepA", "timeStepB"}

FieldInterpolation == params.meshType = OVERSET_MESH /\ params.oversetMethod = 2

\* C30: with overset field interpolation (meshType = overset, oversetMethod = 2)
\* solver::timeStepA and solver::timeStepB, with or without the multigrid
\* source term, modify U_spts only of elements whose cell iblank is NORMAL:
\* the U_spts of every HOLE or FRINGE element is left unchanged by them.
C30_BlankedElementsNotAdvanced ==
  [][ (TimeStepTaken /\ FieldInterpolation) =>
        \A e \in Eles : iblankCell[e] # NORMAL => U_spts'[e] = U_spts[e] ]_vars

\* a time step with the multigrid source term has advanced a NORMAL element
\* next to a blanked one
C30_Witness ==
  /\ FieldInterpolation /\ PMG_Source
  /\ Len(updLog) > 0 /\ updLog[Len(updLog)][1] \in {"timeStepA", "timeStepB"}
  /\ \E e \in Eles : iblankCell[e] = NORMAL /\ U_spts[e] # QInt(e)
  /\ \E e \in Eles : iblankCell[e] \in {HOLE, FRINGE} /\ U_spts[e] = QInt(e)

====
